---- MODULE Spec2Model ----
(***************************************************************************)
(* Bank_api: the NBG rate provider (src/src/nbg_fx_rates.py), the bank     *)
(* fetchers (src/src/bog_api.py, src/src/tbc_api.py) and the report        *)
(* generator (src/src/excel_report_generator.py).                          *)
(*                                                                         *)
(* Conventions.  A Python value that may be None is a set with at most one *)
(* element: None is {} and the value x is {x}.  A pandas null in a string  *)
(* column is the string "NaN".  A calendar day is a day number; rates are  *)
(* in hundredths of a lari (2.70 is 270), so GEL equivalents are in        *)
(* hundredths of a lari too.  Arithmetic is exact.                         *)
(***************************************************************************)
EXTENDS Integers, Sequences, FiniteSets, TLC

VARIABLES
    nbgData,      \* the NBG API: per day, the currencies it answers with
    nbgFxRates,   \* the table nbg_fx_rates of bank_data.db: its kind and rows
    lastCall,     \* the last call made to the rate provider, and its outcome
    bankLedger,   \* the banks' books: per day, the entries posted to an account
    fetchResult,  \* the last call of a bank fetcher, and the records it returned
    bogTable,     \* the table bog_transactions of bank_data.db
    tbcTable,     \* the table tbc_transactions of bank_data.db
    pc,           \* where excel_report_generator.main() stands
    bog_df,       \* main(): the mapped BOG frame
    tbc_df,       \* main(): the mapped TBC frame
    mapPos,       \* map_and_transform_*: the calculated column and the row at hand
    companies,    \* main(): the companies still to iterate
    dates,        \* main(): the dates of the current company still to iterate
    workbook,     \* write_excel: the company, the date, the four frames, the groups
                  \* still to revalue and the summary rows so far
    reports,      \* the workbooks written, in order
    banksXlsx,    \* the account spreadsheet banks.xlsx: its kind and its rows
    successLog,   \* bog_api: the table success_log, the last run date per account
    downloadLog,  \* tbc_api: the table download_log, the status per date
    runResult,    \* the last run over the account list, and what it returned
    ratesCall,    \* the last call of get_daily_currency_rates, and its outcome
    etl,          \* bank_api main(): where it stands, the frame it holds and
                  \* the calls it has made
    download,     \* tbc_api download_missing_days: where a run stands
    bogRun,       \* bog_api get_all_transactions(end_date): where a run stands
    historical,   \* the rows of historical_exchange_rates.xlsx, or no file
    reval         \* a foreign-currency group and what the two revaluations report

rateVars == <<nbgData, nbgFxRates, lastCall>>
fetchVars == <<bankLedger, fetchResult>>
reportVars == <<bogTable, tbcTable, pc, bog_df, tbc_df, mapPos, companies, dates, workbook, reports>>
mainVars == <<pc, bog_df, tbc_df, mapPos, companies, dates, workbook, reports>>
jobVars == <<download, bogRun, historical, reval>>
etlVars == <<ratesCall, etl, jobVars>>
runVars == <<banksXlsx, successLog, downloadLog, runResult, etlVars>>
vars == <<rateVars, fetchVars, reportVars, runVars>>

\* What a step of the rate provider, and of a fetcher, leaves alone.
notRateVars == <<fetchVars, reportVars, runVars>>
notFetchVars == <<rateVars, reportVars, runVars>>

(***************************************************************************)
(* Bounds                                                                  *)
(***************************************************************************)
MaxDay == 2

Days == 0..MaxDay

None == {}
Some(x) == {x}

NaN == "NaN"

ForeignCurrencies == {"USD", "EUR"}

\* The rate of the lari itself, 1.0.
GelRate == 100

\* What the NBG API may answer for one day: nothing usable (None), or a rate
\* per currency of the day's list.
UsdEur(usd, eur) == [c \in {"USD", "EUR"} |-> IF c = "USD" THEN usd ELSE eur]

NbgAnswers ==
    << Some(UsdEur(270, 300)), Some(UsdEur(270, 300)), Some(UsdEur(272, 300)),
       None, Some([c \in {"EUR"} |-> 300]) >>

\* The API's answers over the days: consecutive days with equal rates, with
\* different rates, with a day the API has nothing for, and with a day whose
\* list lacks USD.
NbgSchedules ==
    { [d \in Days |-> NbgAnswers[((d + k) % Len(NbgAnswers)) + 1]] :
        k \in 0..(Len(NbgAnswers) - 1) }

(***************************************************************************)
(* src/src/nbg_fx_rates.py                                                 *)
(***************************************************************************)

\* initialize_nbg_rates_table: CREATE TABLE IF NOT EXISTS with
\* PRIMARY KEY (date, currency).
InitializeNbgRatesTable(db) ==
    IF db.kind = "missing" THEN [kind |-> "pk", rows |-> {}] ELSE db

\* fetch_nbg_rates_from_api: the day's records with GEL appended, or the empty
\* frame when the request fails (up = FALSE) or the answer holds no currencies.
FetchNbgRatesFromApi(d, up) ==
    IF ~up \/ nbgData[d] = None
    THEN {}
    ELSE LET cur == CHOOSE f \in nbgData[d] : TRUE
         IN {[date |-> d, currency |-> c, rate |-> cur[c]] : c \in DOMAIN cur}
            \cup {[date |-> d, currency |-> "GEL", rate |-> GelRate]}

SameKey(r, q) == r.date = q.date /\ r.currency = q.currency

\* store_rates_to_db: append; on an IntegrityError (a primary-key conflict)
\* INSERT OR REPLACE row by row; on any other error (dbOk = FALSE) only log.
StoreRatesToDb(db, df, dbOk) ==
    IF df = {} THEN db
    ELSE IF ~dbOk THEN db
    ELSE IF db.kind = "missing" THEN [kind |-> "nopk", rows |-> df]
    ELSE IF db.kind = "pk" /\ \E r \in df, q \in db.rows : SameKey(r, q)
         THEN [db EXCEPT !.rows =
                  {q \in db.rows : ~\E r \in df : SameKey(r, q)} \cup df]
    ELSE [db EXCEPT !.rows = db.rows \cup df]

\* nbg_fx_rates.get_nbg_rate: 1.0 for GEL, else the stored rate_per_unit of
\* (date, currency), or None when there is no row or the query fails.
ModuleGetNbgRate(db, currency, d) ==
    IF currency = "GEL" THEN Some(GelRate)
    ELSE IF db.kind = "missing" THEN None
    ELSE LET hit == {r \in db.rows : r.date = d /\ r.currency = currency}
         IN IF hit # {} THEN Some((CHOOSE r \in hit : TRUE).rate) ELSE None

\* get_all_rates_for_date: the stored rows of the day ({} also when the query
\* fails because the table is missing).
GetAllRatesForDate(db, d) ==
    IF db.kind = "missing" THEN {} ELSE {r \in db.rows : r.date = d}

\* ensure_rates_for_date that fetches and forgets to store.
EnsureRatesForDateNoStore(db, d, up, dbOk) ==
    IF GetAllRatesForDate(db, d) # {}
    THEN [ret |-> TRUE, db |-> db, requests |-> 0, fetched |-> {}]
    ELSE LET df == FetchNbgRatesFromApi(d, up)
         IN [ret |-> df # {}, db |-> db, requests |-> 1, fetched |-> df]

\* ensure_rates_for_date without its first test: the API is asked whether or
\* not the day has rows.
EnsureRatesForDateAlwaysFetch(db, d, up, dbOk) ==
    LET df == FetchNbgRatesFromApi(d, up)
    IN IF df # {}
       THEN [ret |-> TRUE, db |-> StoreRatesToDb(db, df, dbOk),
             requests |-> 1, fetched |-> df]
       ELSE [ret |-> FALSE, db |-> db, requests |-> 1, fetched |-> {}]

\* ensure_rates_for_date: nothing to do when the day has rows; else one
\* request to the API and, when it answers, a store.
EnsureRatesForDate(db, d, up, dbOk) ==
    IF GetAllRatesForDate(db, d) # {}
    THEN [ret |-> TRUE, db |-> db, requests |-> 0, fetched |-> {}]
    ELSE LET df == FetchNbgRatesFromApi(d, up)
         IN IF df # {}
            THEN [ret |-> TRUE, db |-> StoreRatesToDb(db, df, dbOk),
                  requests |-> 1, fetched |-> df]
            ELSE [ret |-> FALSE, db |-> db, requests |-> 1, fetched |-> {}]

(***************************************************************************)
(* src/src/excel_report_generator.py: the wrapper get_nbg_rate             *)
(***************************************************************************)

\* The date argument: a date, a datetime, a string that parses, or one that
\* does not.
DateArgs ==
    {[kind |-> k, day |-> d] : k \in {"date", "datetime", "str"}, d \in Days}
    \cup {[kind |-> "badstr", day |-> 0]}

\* `x or 0` of the wrapper's last line.
OrZero(x) == IF x = None \/ x = Some(0) THEN Some(0) ELSE x

\* The wrapper without its first test (currency == 'GEL'): GEL goes the way of
\* every other currency.
GetNbgRateNoGelShortcut(db, currency, arg, up, dbOk) ==
    IF arg.kind = "badstr"
    THEN [result |-> None, db |-> db, requests |-> 0, fetched |-> {}]
    ELSE LET e == EnsureRatesForDate(db, arg.day, up, dbOk)
         IN [result |-> OrZero(ModuleGetNbgRate(e.db, currency, arg.day)),
             db |-> e.db, requests |-> e.requests, fetched |-> e.fetched]

\* get_nbg_rate(currency, date) of excel_report_generator.py: 1.0 for GEL; None
\* for a string that is no date; else ensure_rates_for_date and the stored rate,
\* or 0.
GetNbgRate(db, currency, arg, up, dbOk) ==
    IF currency = "GEL"
    THEN [result |-> Some(GelRate), db |-> db, requests |-> 0, fetched |-> {}]
    ELSE IF arg.kind = "badstr"
    THEN [result |-> None, db |-> db, requests |-> 0, fetched |-> {}]
    ELSE LET e == EnsureRatesForDate(db, arg.day, up, dbOk)
         IN [result |-> OrZero(ModuleGetNbgRate(e.db, currency, arg.day)),
             db |-> e.db, requests |-> e.requests, fetched |-> e.fetched]

(***************************************************************************)
(* The banks' books, as the two bank APIs report them                      *)
(***************************************************************************)

\* The accounts of configs/banks.xlsx.
Accounts ==
    { [company |-> "CO1", account_number |-> "ACC1", currency |-> "USD"],
      [company |-> "CO2", account_number |-> "ACC2", currency |-> "GEL"] }

\* The balance of every account before day 0.
StartBalance == 100

\* The entries one day may hold: none, a debit of 50, a credit of 80, or both.
DebitEntry == [debit |-> 50, credit |-> 0]
CreditEntry == [debit |-> 0, credit |-> 80]
DayEntries == { <<>>, <<DebitEntry>>, <<CreditEntry>>, <<DebitEntry, CreditEntry>> }

RECURSIVE SeqSum(_)
SeqSum(s) == IF s = <<>> THEN 0 ELSE Head(s) + SeqSum(Tail(s))

DebitSum(d) == SeqSum([i \in 1..Len(bankLedger[d]) |-> bankLedger[d][i].debit])
CreditSum(d) == SeqSum([i \in 1..Len(bankLedger[d]) |-> bankLedger[d][i].credit])

\* The balance at the end of day d (d = -1: before day 0).
RECURSIVE BalanceAfter(_)
BalanceAfter(d) ==
    IF d < 0 THEN StartBalance
    ELSE BalanceAfter(d - 1) + CreditSum(d) - DebitSum(d)

\* The entries of the days start..end, in order, each with its day and its
\* place in the day.
RECURSIVE EntriesInRange(_, _)
EntriesInRange(start, end) ==
    IF start > end THEN <<>>
    ELSE [i \in 1..Len(bankLedger[start]) |->
             [date |-> start, entry_id |-> <<start, i>>,
              debit |-> bankLedger[start][i].debit,
              credit |-> bankLedger[start][i].credit]]
         \o EntriesInRange(start + 1, end)

(***************************************************************************)
(* src/src/bog_api.py                                                      *)
(***************************************************************************)

\* The DailySummaries of a statement: per day of the range, Balance,
\* CreditSum and DebitSum.
BogDailySummaries(start, end) ==
    [d \in start..end |->
        [Balance |-> BalanceAfter(d), CreditSum |-> CreditSum(d), DebitSum |-> DebitSum(d)]]

\* fetch_transactions_for_account with opening_balance taken to be the
\* closing balance less the day's debits plus its credits.
FetchTransactionsForAccountSwapped(acc, start, end, authOk, statementOk, summaryOk) ==
    IF ~authOk \/ ~statementOk THEN <<>>
    ELSE LET records == EntriesInRange(start, end)
             daily_summaries == IF summaryOk THEN BogDailySummaries(start, end) ELSE <<>>
         IN [i \in 1..Len(records) |->
                LET r == records[i]
                    known == r.date \in DOMAIN daily_summaries
                IN [bank |-> "BOG",
                    entry_date |-> r.date,
                    entry_id |-> r.entry_id,
                    entry_amount_debit |-> r.debit,
                    entry_amount_credit |-> r.credit,
                    company |-> acc.company,
                    currency |-> acc.currency,
                    account_number |-> acc.account_number,
                    opening_balance |->
                        IF known
                        THEN Some(daily_summaries[r.date].Balance
                                  + daily_summaries[r.date].CreditSum
                                  - daily_summaries[r.date].DebitSum)
                        ELSE None,
                    closing_balance |->
                        IF known THEN Some(daily_summaries[r.date].Balance) ELSE None]]

\* fetch_transactions_for_account: [] when the token or the statement request
\* fails; the statement's records otherwise, each with the balances of its
\* day's summary, or with null balances when the summary request failed.
FetchTransactionsForAccount(acc, start, end, authOk, statementOk, summaryOk) ==
    IF ~authOk \/ ~statementOk THEN <<>>
    ELSE LET records == EntriesInRange(start, end)
             daily_summaries == IF summaryOk THEN BogDailySummaries(start, end) ELSE <<>>
         IN [i \in 1..Len(records) |->
                LET r == records[i]
                    known == r.date \in DOMAIN daily_summaries
                IN [bank |-> "BOG",
                    entry_date |-> r.date,
                    entry_id |-> r.entry_id,
                    entry_amount_debit |-> r.debit,
                    entry_amount_credit |-> r.credit,
                    company |-> acc.company,
                    currency |-> acc.currency,
                    account_number |-> acc.account_number,
                    opening_balance |->
                        IF known
                        THEN Some(daily_summaries[r.date].Balance
                                  - daily_summaries[r.date].CreditSum
                                  + daily_summaries[r.date].DebitSum)
                        ELSE None,
                    closing_balance |->
                        IF known THEN Some(daily_summaries[r.date].Balance) ELSE None]]

(***************************************************************************)
(* src/src/tbc_api.py                                                      *)
(***************************************************************************)

\* get_account_statement: the balances of the whole range start..end, or
\* nulls when the request fails.
GetAccountStatement(acc, start, end, statementOk) ==
    IF statementOk
    THEN [opening_balance |-> Some(BalanceAfter(start - 1)),
          closing_balance |-> Some(BalanceAfter(end))]
    ELSE [opening_balance |-> None, closing_balance |-> None]

\* get_transactions: [] when the movements request fails; else the movements
\* of the range, each stamped with the statement's balances.  debitCredit is
\* "0" for an outgoing amount and "1" for an incoming one.
GetTransactions(acc, start, end, statementOk, movementsOk) ==
    LET statement == GetAccountStatement(acc, start, end, statementOk)
    IN IF ~movementsOk THEN <<>>
       ELSE LET movements == EntriesInRange(start, end)
            IN [i \in 1..Len(movements) |->
                   LET m == movements[i]
                   IN [bank |-> "TBC",
                       valueDate |-> m.date,
                       entry_id |-> m.entry_id,
                       amount |-> m.debit + m.credit,
                       debitCredit |-> IF m.debit > 0 THEN "0" ELSE "1",
                       company |-> acc.company,
                       currency |-> acc.currency,
                       account_number |-> acc.account_number,
                       opening_balance |-> statement.opening_balance,
                       closing_balance |-> statement.closing_balance]]

(***************************************************************************)
(* The fetchers under their callers                                        *)
(***************************************************************************)

\* failed: one of the requests the call made to the bank failed.
NoFetch == [bank |-> "none", start |-> 0, end |-> 0, failed |-> FALSE, records |-> <<>>]

InitFetch ==
    /\ bankLedger \in [Days -> DayEntries]
    /\ fetchResult = NoFetch

IdleFetch ==
    /\ bankLedger = [d \in Days |-> <<>>]
    /\ fetchResult = NoFetch

\* bog_api.fetch_transactions_for_account is called for an account and a range.
CallFetchTransactionsForAccount ==
    \E acc \in Accounts, start \in Days, end \in Days,
       authOk \in BOOLEAN, statementOk \in BOOLEAN, summaryOk \in BOOLEAN :
        /\ start <= end
        /\ fetchResult' =
              [bank |-> "BOG", start |-> start, end |-> end,
               failed |-> ~(authOk /\ statementOk /\ summaryOk),
               records |-> FetchTransactionsForAccount(acc, start, end, authOk,
                                                       statementOk, summaryOk)]
        /\ UNCHANGED <<bankLedger, notFetchVars>>

\* tbc_api.get_transactions is called for an account and a range.
CallGetTransactions ==
    \E acc \in Accounts, start \in Days, end \in Days,
       statementOk \in BOOLEAN, movementsOk \in BOOLEAN :
        /\ start <= end
        /\ fetchResult' =
              [bank |-> "TBC", start |-> start, end |-> end,
               failed |-> ~(statementOk /\ movementsOk),
               records |-> GetTransactions(acc, start, end, statementOk, movementsOk)]
        /\ UNCHANGED <<bankLedger, notFetchVars>>

NextFetch ==
    \/ CallFetchTransactionsForAccount
    \/ CallGetTransactions

\* The day, the debit and the credit of a fetched record: for TBC an outgoing
\* amount is the account's debit and an incoming one its credit.
RecDate(r) == IF r.bank = "BOG" THEN r.entry_date ELSE r.valueDate
RecDebit(r) == IF r.bank = "BOG" THEN r.entry_amount_debit
               ELSE IF r.debitCredit = "0" THEN r.amount ELSE 0
RecCredit(r) == IF r.bank = "BOG" THEN r.entry_amount_credit
                ELSE IF r.debitCredit = "1" THEN r.amount ELSE 0

\* The indices of the records of r's (company, account, currency, date) group.
GroupOf(recs, i) ==
    {j \in 1..Len(recs) :
        /\ recs[j].company = recs[i].company
        /\ recs[j].account_number = recs[i].account_number
        /\ recs[j].currency = recs[i].currency
        /\ RecDate(recs[j]) = RecDate(recs[i])}

RECURSIVE SetSum(_, _)
SetSum(f, S) ==
    IF S = {} THEN 0
    ELSE LET x == CHOOSE y \in S : TRUE IN f[x] + SetSum(f, S \ {x})

\* C4: in the records a fetcher returns, the opening and closing balances
\* attached to a record satisfy closing = opening + (the credits of the
\* record's (company, account, currency, date) group) - (the debits of the
\* group).
C4_GroupBalanceIdentity ==
    LET recs == fetchResult.records
    IN \A i \in 1..Len(recs) :
          (recs[i].opening_balance # None /\ recs[i].closing_balance # None)
          => LET g == GroupOf(recs, i)
                 credits == SetSum([j \in 1..Len(recs) |-> RecCredit(recs[j])], g)
                 debits == SetSum([j \in 1..Len(recs) |-> RecDebit(recs[j])], g)
             IN recs[i].closing_balance
                  = {o + credits - debits : o \in recs[i].opening_balance}

\* C15: when a request made to the bank for the account failed (token,
\* statement or movements, daily summaries, balance statement), the call
\* returns no record of that account.
C15_FailedCallYieldsNoRecord ==
    fetchResult.failed => fetchResult.records = <<>>

(***************************************************************************)
(* The rate provider under its callers                                     *)
(***************************************************************************)

Currencies == {"GEL"} \cup ForeignCurrencies

NoCall ==
    [op |-> "none", currency |-> "GEL", arg |-> [kind |-> "date", day |-> 0],
     result |-> None, requests |-> 0, fetched |-> {}, up |-> TRUE, dbOk |-> TRUE]

InitRates ==
    /\ nbgData \in NbgSchedules
    /\ nbgFxRates \in {[kind |-> "missing", rows |-> {}], [kind |-> "pk", rows |-> {}]}
    /\ lastCall = NoCall

\* A caller asks the wrapper for a rate.
CallGetNbgRate ==
    \E currency \in Currencies, arg \in DateArgs, up \in BOOLEAN, dbOk \in BOOLEAN :
        LET g == GetNbgRate(nbgFxRates, currency, arg, up, dbOk)
        IN /\ nbgFxRates' = g.db
           /\ lastCall' = [op |-> "get_nbg_rate", currency |-> currency, arg |-> arg,
                           result |-> g.result, requests |-> g.requests,
                           fetched |-> g.fetched, up |-> up, dbOk |-> dbOk]
           /\ UNCHANGED <<nbgData, notRateVars>>

\* A caller asks nbg_fx_rates.get_nbg_rate directly.
CallModuleGetNbgRate ==
    \E currency \in Currencies, d \in Days :
        /\ lastCall' = [op |-> "module_get_nbg_rate", currency |-> currency,
                        arg |-> [kind |-> "date", day |-> d],
                        result |-> ModuleGetNbgRate(nbgFxRates, currency, d),
                        requests |-> 0, fetched |-> {}, up |-> TRUE, dbOk |-> TRUE]
        /\ UNCHANGED <<nbgData, nbgFxRates, notRateVars>>

\* A caller runs ensure_rates_for_date.
CallEnsureRatesForDate ==
    \E d \in Days, up \in BOOLEAN, dbOk \in BOOLEAN :
        LET e == EnsureRatesForDate(nbgFxRates, d, up, dbOk)
        IN /\ nbgFxRates' = e.db
           /\ lastCall' = [op |-> "ensure_rates_for_date", currency |-> "GEL",
                           arg |-> [kind |-> "date", day |-> d],
                           result |-> IF e.ret THEN Some(1) ELSE Some(0),
                           requests |-> e.requests, fetched |-> e.fetched,
                           up |-> up, dbOk |-> dbOk]
           /\ UNCHANGED <<nbgData, notRateVars>>

\* initialize_nbg_rates_table runs.
CallInitializeNbgRatesTable ==
    /\ nbgFxRates' = InitializeNbgRatesTable(nbgFxRates)
    /\ lastCall' = [NoCall EXCEPT !.op = "initialize_nbg_rates_table"]
    /\ UNCHANGED <<nbgData, notRateVars>>

NextRates ==
    \/ CallGetNbgRate
    \/ CallModuleGetNbgRate
    \/ CallEnsureRatesForDate
    \/ CallInitializeNbgRatesTable

(***************************************************************************)
(* The table nbg_fx_rates under store_rates_to_db and                      *)
(* fetch_and_store_missing_rates                                           *)
(***************************************************************************)

\* get_latest_date_in_db: MAX(date) of the table, or None.
GetLatestDateInDb(db) ==
    IF db.kind = "missing" \/ db.rows = {} THEN None
    ELSE Some(CHOOSE d \in {r.date : r \in db.rows} :
                 \A r \in db.rows : r.date <= d)

\* The days fetch_and_store_missing_rates goes back when the table is empty
\* and no start date is given.
DefaultDaysBack == 30

\* The loop of fetch_and_store_missing_rates from current_date to end_date:
\* a request per day, and a store when it answers.  up tells whether the
\* requests of this run succeed, dbOk whether its stores do.  The NBG has
\* nothing for a day before day 0.
RECURSIVE FetchAndStoreLoop(_, _, _, _, _)
FetchAndStoreLoop(db, current_date, end_date, up, dbOk) ==
    IF current_date > end_date THEN db
    ELSE LET df == IF current_date \in Days
                   THEN FetchNbgRatesFromApi(current_date, up)
                   ELSE {}
         IN FetchAndStoreLoop(StoreRatesToDb(db, df, dbOk),
                              current_date + 1, end_date, up, dbOk)

\* fetch_and_store_missing_rates(start_date, end_date): start_date None is
\* the day after the latest stored one, or 30 days before end_date.
FetchAndStoreMissingRates(db, start_date, end_date, up, dbOk) ==
    LET created == InitializeNbgRatesTable(db)
        latest_db_date == GetLatestDateInDb(created)
        start == IF start_date # None THEN CHOOSE d \in start_date : TRUE
                 ELSE IF latest_db_date # None
                      THEN (CHOOSE d \in latest_db_date : TRUE) + 1
                      ELSE end_date - DefaultDaysBack
    IN FetchAndStoreLoop(created, start, end_date, up, dbOk)

\* The frames a caller may hand to store_rates_to_db: a day's frame as
\* fetch_nbg_rates_from_api builds it, with the USD rate at 2.72.
StoreFrames ==
    { { [date |-> d, currency |-> c, rate |-> UsdEur(272, 300)[c]] :
          c \in ForeignCurrencies }
      \cup {[date |-> d, currency |-> "GEL", rate |-> GelRate]} : d \in Days }

\* store_rates_to_db is called with a frame.
CallStoreRatesToDb ==
    \E df \in StoreFrames, dbOk \in BOOLEAN :
        /\ nbgFxRates' = StoreRatesToDb(nbgFxRates, df, dbOk)
        /\ lastCall' = [NoCall EXCEPT !.op = "store_rates_to_db", !.fetched = df,
                                      !.dbOk = dbOk]
        /\ UNCHANGED <<nbgData, notRateVars>>

\* fetch_and_store_missing_rates is called, with or without a start date.
CallFetchAndStoreMissingRates ==
    \E start_date \in {None} \cup {Some(d) : d \in Days}, end_date \in Days,
       up \in BOOLEAN, dbOk \in BOOLEAN :
        /\ nbgFxRates' = FetchAndStoreMissingRates(nbgFxRates, start_date, end_date,
                                                   up, dbOk)
        /\ lastCall' = [NoCall EXCEPT !.op = "fetch_and_store_missing_rates",
                                      !.arg = [kind |-> "date", day |-> end_date]]
        /\ UNCHANGED <<nbgData, notRateVars>>

\* The callers of the cache on a table initialize_nbg_rates_table created.
InitCache ==
    /\ nbgData \in NbgSchedules
    /\ nbgFxRates = [kind |-> "pk", rows |-> {}]
    /\ lastCall = NoCall

NextCache ==
    \/ CallGetNbgRate
    \/ CallEnsureRatesForDate
    \/ CallStoreRatesToDb
    \/ CallFetchAndStoreMissingRates

IdleRates ==
    /\ nbgData = [d \in Days |-> None]
    /\ nbgFxRates = [kind |-> "missing", rows |-> {}]
    /\ lastCall = NoCall

(***************************************************************************)
(* The account list: read_accounts_from_excel                              *)
(***************************************************************************)

\* The rows of banks.xlsx: per bank an account of CO1, an account of CO3 (a
\* company the credentials tables do not list) and an account of CO2.
AccountRow(bank_name, company, currency, account_number) ==
    [bank_name |-> bank_name, company |-> company, currency |-> currency,
     account_number |-> account_number]

BanksRows ==
    << AccountRow("BOG", "CO1", "USD", "ACC1"),
       AccountRow("TBC", "CO1", "USD", "ACC1"),
       AccountRow("BOG", "CO3", "USD", "ACC3"),
       AccountRow("TBC", "CO3", "USD", "ACC3"),
       AccountRow("BOG", "CO2", "GEL", "ACC2"),
       AccountRow("TBC", "CO2", "GEL", "ACC2") >>

\* What banks.xlsx may be: a file that cannot be read, a sheet without the
\* column ID, a sheet without the column Account Number, a sheet with the
\* two columns and no row, and the sheet of the accounts.
Sheets ==
    { [kind |-> "unreadable", rows |-> <<>>],
      [kind |-> "no_id", rows |-> <<>>],
      [kind |-> "no_account_number", rows |-> <<>>],
      [kind |-> "ok", rows |-> <<>>],
      [kind |-> "ok", rows |-> BanksRows] }

\* COMPANY_CREDENTIALS_BOG and TBC_CREDENTIALS: the companies they list.
CompaniesWithCredentials == {"CO1", "CO2"}

\* pd.DataFrame(): no column, no row.
EmptyFrame == [raised |-> FALSE, columns |-> FALSE, rows |-> <<>>]

\* read_accounts_from_excel of bank_api/api/bog_api.py, bank_api/api/tbc_api.py
\* and src/src/tbc_api.py: pd.DataFrame() when read_excel raises; the
\* derivation of the columns from df['ID'] and df['Account Number'] stands
\* outside the try, so a sheet without one of them raises KeyError.
ApiReadAccountsFromExcel(xlsx, bank) ==
    IF xlsx.kind = "unreadable" THEN EmptyFrame
    ELSE IF xlsx.kind \in {"no_id", "no_account_number"}
    THEN [raised |-> TRUE, columns |-> FALSE, rows |-> <<>>]
    ELSE LET OfBank(r) == r.account_number # NaN /\ r.bank_name = bank
         IN [raised |-> FALSE, columns |-> TRUE, rows |-> SelectSeq(xlsx.rows, OfBank)]

\* read_accounts_from_excel of src/src/bog_api.py: pd.DataFrame() when
\* read_excel raises and when a column is missing.
BogReadAccountsFromExcel(xlsx) ==
    IF xlsx.kind # "ok" THEN EmptyFrame
    ELSE LET OfBank(r) ==
                 r.account_number # NaN /\ r.company # NaN /\ r.bank_name = "BOG"
         IN [raised |-> FALSE, columns |-> TRUE, rows |-> SelectSeq(xlsx.rows, OfBank)]

(***************************************************************************)
(* get_all_transactions                                                    *)
(***************************************************************************)

\* How the requests for one account may go: all succeed, or one of them fails.
BogOutcomes ==
    { [authOk |-> TRUE, statementOk |-> TRUE, summaryOk |-> TRUE],
      [authOk |-> FALSE, statementOk |-> TRUE, summaryOk |-> TRUE],
      [authOk |-> TRUE, statementOk |-> FALSE, summaryOk |-> TRUE],
      [authOk |-> TRUE, statementOk |-> TRUE, summaryOk |-> FALSE] }

TbcOutcomes ==
    { [statementOk |-> TRUE, movementsOk |-> TRUE],
      [statementOk |-> FALSE, movementsOk |-> TRUE],
      [statementOk |-> TRUE, movementsOk |-> FALSE] }

RECURSIVE Flatten(_)
Flatten(ss) == IF ss = <<>> THEN <<>> ELSE Head(ss) \o Flatten(Tail(ss))

\* The indices of the rows the loop requests: those of a company with
\* credentials (the others are skipped with `continue`).
RequestedRows(rows) ==
    LET Asked(i) == rows[i].company \in CompaniesWithCredentials
    IN SelectSeq([i \in 1..Len(rows) |-> i], Asked)

\* The loop of bog_api.get_all_transactions over the rows: all_records is
\* extended with what fetch_transactions_for_account returns for each row.
BogAllRecords(rows, start_date, end_date, outcomes) ==
    Flatten([i \in 1..Len(rows) |->
                IF rows[i].company \in CompaniesWithCredentials
                THEN FetchTransactionsForAccount(rows[i], start_date, end_date,
                                                 outcomes[i].authOk,
                                                 outcomes[i].statementOk,
                                                 outcomes[i].summaryOk)
                ELSE <<>>])

\* The loop of tbc_api.get_all_transactions over the rows: get_transactions
\* inside a try, the next row after an exception.
TbcAllRecords(rows, start_date, end_date, outcomes) ==
    Flatten([i \in 1..Len(rows) |->
                IF rows[i].company \in CompaniesWithCredentials
                THEN GetTransactions(rows[i], start_date, end_date,
                                     outcomes[i].statementOk, outcomes[i].movementsOk)
                ELSE <<>>])

\* The rows up to the first one whose requests do not all succeed.
RECURSIVE UpToFirstFailure(_, _, _)
UpToFirstFailure(rows, outcomes, i) ==
    IF i > Len(rows) THEN rows
    ELSE IF rows[i].company \in CompaniesWithCredentials
            /\ \E f \in DOMAIN outcomes[i] : ~outcomes[i][f]
         THEN SubSeq(rows, 1, i)
         ELSE UpToFirstFailure(rows, outcomes, i + 1)

\* What a run returns: whether it raised, the rows it read, the rows it made
\* requests for, and the frame of records.
RunOutcome(raised, accounts, fetched, records) ==
    [raised |-> raised, accounts |-> accounts, fetched |-> fetched, records |-> records]

\* bog_api.get_all_transactions that ends the loop at the first account whose
\* requests fail.
BankApiBogGetAllTransactionsStopOnFailure(xlsx, start_date, end_date, outcomes) ==
    LET accounts_df == ApiReadAccountsFromExcel(xlsx, "BOG")
        rows == UpToFirstFailure(accounts_df.rows, outcomes, 1)
    IN IF accounts_df.raised THEN RunOutcome(TRUE, <<>>, <<>>, <<>>)
       ELSE IF accounts_df.rows = <<>> \/ ~accounts_df.columns
       THEN RunOutcome(FALSE, accounts_df.rows, <<>>, <<>>)
       ELSE RunOutcome(FALSE, accounts_df.rows, RequestedRows(rows),
                       BogAllRecords(rows, start_date, end_date, outcomes))

\* bank_api/api/bog_api.py get_all_transactions(start_date, end_date): an
\* empty frame when the account frame is empty or lacks a required column;
\* else the records of every row with credentials.  An exception of
\* read_accounts_from_excel is not caught.
BankApiBogGetAllTransactions(xlsx, start_date, end_date, outcomes) ==
    LET accounts_df == ApiReadAccountsFromExcel(xlsx, "BOG")
    IN IF accounts_df.raised THEN RunOutcome(TRUE, <<>>, <<>>, <<>>)
       ELSE IF accounts_df.rows = <<>> \/ ~accounts_df.columns
       THEN RunOutcome(FALSE, accounts_df.rows, <<>>, <<>>)
       ELSE RunOutcome(FALSE, accounts_df.rows, RequestedRows(accounts_df.rows),
                       BogAllRecords(accounts_df.rows, start_date, end_date, outcomes))

\* bank_api/api/tbc_api.py get_all_transactions(start_date, end_date): the
\* same check, then the loop with get_transactions inside a try.
BankApiTbcGetAllTransactions(xlsx, start_date, end_date, outcomes) ==
    LET accounts_df == ApiReadAccountsFromExcel(xlsx, "TBC")
    IN IF accounts_df.raised THEN RunOutcome(TRUE, <<>>, <<>>, <<>>)
       ELSE IF accounts_df.rows = <<>> \/ ~accounts_df.columns
       THEN RunOutcome(FALSE, accounts_df.rows, <<>>, <<>>)
       ELSE RunOutcome(FALSE, accounts_df.rows, RequestedRows(accounts_df.rows),
                       TbcAllRecords(accounts_df.rows, start_date, end_date, outcomes))

\* src/src/tbc_api.py get_all_transactions(start_date, end_date): no check of
\* the account frame; the loop runs over its rows, none when it is empty.
TbcGetAllTransactions(xlsx, start_date, end_date, outcomes) ==
    LET accounts_df == ApiReadAccountsFromExcel(xlsx, "TBC")
    IN IF accounts_df.raised THEN RunOutcome(TRUE, <<>>, <<>>, <<>>)
       ELSE RunOutcome(FALSE, accounts_df.rows, RequestedRows(accounts_df.rows),
                       TbcAllRecords(accounts_df.rows, start_date, end_date, outcomes))

(***************************************************************************)
(* The runs over the account list                                          *)
(***************************************************************************)

NoRun ==
    [op |-> "none", bank |-> "none", start |-> 0, end |-> 0, outcomes |-> <<>>,
     raised |-> FALSE, accounts |-> <<>>, fetched |-> <<>>, records |-> <<>>]

\* The run's record: the call, the outcomes of its requests, what it returned.
RunOf(op, bank, start_date, end_date, outcomes, out) ==
    [op |-> op, bank |-> bank, start |-> start_date, end |-> end_date,
     outcomes |-> outcomes, raised |-> out.raised, accounts |-> out.accounts,
     fetched |-> out.fetched, records |-> out.records]

\* get_daily_currency_rates has not been called.
NoRatesCall ==
    [op |-> "none", currencies |-> <<>>, bog |-> <<>>, tbc |-> <<>>,
     raised |-> FALSE, rows |-> <<>>]

\* main() of bank_api has not been started.
NoEtl == [pc |-> "idle", frame |-> <<>>, calls |-> <<>>]

\* bank_data.db without the table download_log.
NoDownloadLog == [exists |-> FALSE, rows |-> <<>>]

\* No run of download_missing_days, no run of get_all_transactions(end_date),
\* no historical file and no group revalued.
NoDownload == [pc |-> "idle", run |-> 0, defaults |-> TRUE]
NoBogRun == [pc |-> "idle", run |-> 0, cursor_records |-> {}]
NoFile == [exists |-> FALSE, rows |-> <<>>, batch |-> <<>>, appends |-> 0, written |-> FALSE]
NoReval == [pc |-> "idle"]
IdleJobs ==
    /\ download = NoDownload
    /\ bogRun = NoBogRun
    /\ historical = NoFile
    /\ reval = NoReval

IdleEtl ==
    /\ ratesCall = NoRatesCall
    /\ etl = NoEtl
    /\ IdleJobs

IdleRuns ==
    /\ banksXlsx = [kind |-> "ok", rows |-> <<>>]
    /\ successLog = {}
    /\ downloadLog = NoDownloadLog
    /\ runResult = NoRun
    /\ IdleEtl

\* The ledgers of the runs: a day holds no entry or one credit.
RunLedgers == [Days -> {<<>>, <<CreditEntry>>}]

InitRuns ==
    /\ bankLedger \in RunLedgers
    /\ fetchResult = NoFetch
    /\ banksXlsx \in Sheets
    /\ successLog = {}
    /\ downloadLog = NoDownloadLog
    /\ runResult = NoRun
    /\ IdleEtl

\* The number of rows read_accounts_from_excel returns for the bank.
RowsOfBank(bank) ==
    LET OfBank(r) == r.bank_name = bank IN Len(SelectSeq(banksXlsx.rows, OfBank))

\* bank_api.api.bog_api.get_all_transactions(start_date, end_date) is called,
\* once in a run of the module (its __main__ block).
CallBankApiBogGetAllTransactions ==
    \E start_date \in Days, end_date \in Days,
       outcomes \in [1..RowsOfBank("BOG") -> BogOutcomes] :
        /\ runResult = NoRun
        /\ start_date <= end_date
        /\ runResult' = RunOf("bank_api.bog_api.get_all_transactions", "BOG",
                              start_date, end_date, outcomes,
                              BankApiBogGetAllTransactions(banksXlsx, start_date,
                                                           end_date, outcomes))
        /\ UNCHANGED <<rateVars, fetchVars, reportVars, banksXlsx, successLog, downloadLog, etlVars>>

\* bank_api.api.tbc_api.get_all_transactions(start_date, end_date) is called.
CallBankApiTbcGetAllTransactions ==
    \E start_date \in Days, end_date \in Days,
       outcomes \in [1..RowsOfBank("TBC") -> TbcOutcomes] :
        /\ runResult = NoRun
        /\ start_date <= end_date
        /\ runResult' = RunOf("bank_api.tbc_api.get_all_transactions", "TBC",
                              start_date, end_date, outcomes,
                              BankApiTbcGetAllTransactions(banksXlsx, start_date,
                                                           end_date, outcomes))
        /\ UNCHANGED <<rateVars, fetchVars, reportVars, banksXlsx, successLog, downloadLog, etlVars>>

\* src/src/tbc_api.py get_all_transactions(start_date, end_date) is called.
CallTbcGetAllTransactions ==
    \E start_date \in Days, end_date \in Days,
       outcomes \in [1..RowsOfBank("TBC") -> TbcOutcomes] :
        /\ runResult = NoRun
        /\ start_date <= end_date
        /\ runResult' = RunOf("tbc_api.get_all_transactions", "TBC",
                              start_date, end_date, outcomes,
                              TbcGetAllTransactions(banksXlsx, start_date,
                                                    end_date, outcomes))
        /\ UNCHANGED <<rateVars, fetchVars, reportVars, banksXlsx, successLog, downloadLog, etlVars>>

NextRuns ==
    \/ CallBankApiBogGetAllTransactions
    \/ CallBankApiTbcGetAllTransactions
    \/ CallTbcGetAllTransactions

(***************************************************************************)
(* The runs that fetch and write: bog_transactions and tbc_transactions    *)
(***************************************************************************)

\* The rows the two tables together may hold at most.
MaxStored == 4

\* The runs of get_all_transactions(end_date), and those of
\* download_missing_days, on one database.
MaxRuns == 2

\* The day of a run: the day after the last day of the books.
Today == MaxDay + 1

\* The days get_all_transactions of src/src/bog_api.py and
\* download_missing_days go back when their log is empty.
DaysBack == 3

Max(a, b) == IF a >= b THEN a ELSE b

\* The key of success_log.
LogKey(row) == <<row.company, row.account_number, row.currency>>

\* The rows of success_log are records of a key and a last_run_date.
\* get_last_run_date: the last_run_date of a row of the account, or None.
GetLastRunDate(log, row) ==
    LET found == {r \in log : r.key = LogKey(row)}
    IN IF found = {} THEN None
       ELSE Some((CHOOSE r \in found : TRUE).last_run_date)

\* update_last_run_date: INSERT OR REPLACE under the primary key (company,
\* account_number, currency): the rows of the key go, the new row comes.
UpdateLastRunDate(log, row, new_date) ==
    {r \in log : r.key # LogKey(row)}
    \cup {[key |-> LogKey(row), last_run_date |-> new_date]}

\* The start date taken to be the last run date itself.
BogStartDateOnLastRunDate(last_run_date, end_date) ==
    IF last_run_date # None THEN CHOOSE d \in last_run_date : TRUE
    ELSE end_date - DaysBack

\* The start date taken to be 3 days before end_date, whatever the log says.
BogStartDateDaysBack(last_run_date, end_date) == end_date - DaysBack

\* The start date of an account's fetch: the day after its last run date,
\* or 3 days before end_date when it has none.
BogStartDate(last_run_date, end_date) ==
    IF last_run_date # None THEN (CHOOSE d \in last_run_date : TRUE) + 1
    ELSE end_date - DaysBack

\* The window requested for the row, or None: nothing is requested when the
\* start date is after end_date or the company has no credentials.
BogRowWindow(row, log, end_date) ==
    LET last_run_date == GetLastRunDate(log, row)
        start_date == BogStartDate(last_run_date, end_date)
    IN IF start_date > end_date \/ row.company \notin CompaniesWithCredentials
       THEN None
       ELSE Some([key |-> LogKey(row), last_run_date |-> last_run_date,
                  start_date |-> start_date, end_date |-> end_date])

\* src/src/bog_api.py get_all_transactions, one row of the loop: the records
\* of the window.  The books begin at day 0.
BogRowRecords(row, log, end_date, o) ==
    LET window == BogRowWindow(row, log, end_date)
    IN IF window = None THEN <<>>
       ELSE FetchTransactionsForAccount(row,
                                        Max((CHOOSE w \in window : TRUE).start_date, 0),
                                        end_date, o.authOk, o.statementOk, o.summaryOk)

\* The loop over the rows from row i on: the records are collected and the
\* last run date is set for every account that returned records; requests
\* holds the windows requested and the number of records each returned.
RECURSIVE BogRunLoop(_, _, _, _, _)
BogRunLoop(rows, i, log, end_date, outcomes) ==
    IF i > Len(rows) THEN [records |-> <<>>, log |-> log, requests |-> <<>>]
    ELSE LET records == BogRowRecords(rows[i], log, end_date, outcomes[i])
             window == BogRowWindow(rows[i], log, end_date)
             rest == BogRunLoop(rows, i + 1,
                                IF records # <<>>
                                THEN UpdateLastRunDate(log, rows[i], end_date)
                                ELSE log,
                                end_date, outcomes)
         IN [records |-> records \o rest.records, log |-> rest.log,
             requests |->
                 (IF window = None THEN <<>>
                  ELSE <<[window |-> CHOOSE w \in window : TRUE,
                          returned |-> Len(records)]>>)
                 \o rest.requests]

\* src/src/bog_api.py get_all_transactions(end_date).
BogGetAllTransactions(xlsx, log, end_date, outcomes) ==
    LET accounts_df == BogReadAccountsFromExcel(xlsx)
    IN IF accounts_df.rows = <<>> \/ ~accounts_df.columns
       THEN [records |-> <<>>, log |-> log, requests |-> <<>>]
       ELSE BogRunLoop(accounts_df.rows, 1, log, end_date, outcomes)

\* write_transactions_to_sqlite of both banks: nothing for an empty frame,
\* else to_sql(if_exists='append').
WriteTransactionsToSqlite(table, df) ==
    IF df = <<>> THEN table ELSE table \o df

\* fetch_transactions_for_specific_day(specific_date): the records of the day
\* of every row with credentials.
FetchTransactionsForSpecificDay(xlsx, specific_date, outcomes) ==
    LET accounts_df == BogReadAccountsFromExcel(xlsx)
    IN IF accounts_df.rows = <<>> \/ ~accounts_df.columns THEN <<>>
       ELSE BogAllRecords(accounts_df.rows, specific_date, specific_date, outcomes)

\* get_last_successful_date, its CREATE TABLE IF NOT EXISTS.
EnsureDownloadLog(log) == [log EXCEPT !.exists = TRUE]

\* get_last_successful_date: the latest date logged 'success', or None.
GetLastSuccessfulDate(log) ==
    LET done == {d \in DOMAIN log.rows : log.rows[d].status = "success"}
    IN IF done = {} THEN None
       ELSE Some(CHOOSE d \in done : \A e \in done : e <= d)

\* log_download_status: INSERT OR REPLACE of the date's row; the error of a
\* database without the table is caught and logged, nothing is written.
LogDownloadStatus(log, d, status, transaction_count) ==
    IF ~log.exists THEN log
    ELSE [log EXCEPT !.rows =
             [k \in DOMAIN log.rows \cup {d} |->
                 IF k = d THEN [status |-> status, transaction_count |-> transaction_count]
                 ELSE log.rows[k]]]

\* get_next_date: the day after.
NextDate(d) == d + 1

\* The loop of download_missing_days from current_date up to the day before
\* today: get_all_transactions of the day, the write of a non-empty frame and
\* 'success' in the log; 'failed' when the attempts raise.
RECURSIVE DownloadLoop(_, _, _, _, _)
DownloadLoop(xlsx, table, log, current_date, outcomes) ==
    IF current_date >= Today THEN [table |-> table, log |-> log]
    ELSE LET df == TbcGetAllTransactions(xlsx, current_date, current_date, outcomes)
         IN IF df.raised
            THEN DownloadLoop(xlsx, table,
                              LogDownloadStatus(log, current_date, "failed", 0),
                              NextDate(current_date), outcomes)
            ELSE DownloadLoop(xlsx, WriteTransactionsToSqlite(table, df.records),
                              LogDownloadStatus(log, current_date, "success",
                                                Len(df.records)),
                              NextDate(current_date), outcomes)

\* download_missing_days(start_date): start_date None is the day after the
\* last successful date, or 3 days before today.
DownloadStartDate(start_date, last_successful_date) ==
    IF start_date # None THEN CHOOSE d \in start_date : TRUE
    ELSE IF last_successful_date = None THEN Max(Today - DaysBack, 0)
    ELSE NextDate(CHOOSE d \in last_successful_date : TRUE)

DownloadMissingDays(xlsx, table, log, start_date, outcomes) ==
    DownloadLoop(xlsx, table,
                 IF start_date = None THEN EnsureDownloadLog(log) ELSE log,
                 DownloadStartDate(start_date, GetLastSuccessfulDate(log)), outcomes)

\* The outcomes of a run that writes: the bank answers every request of the
\* run, or none (the token request of BOG, the movements request of TBC,
\* fails for every row).
BogStoreOutcomes ==
    { [i \in 1..RowsOfBank("BOG") |->
          [authOk |-> a, statementOk |-> TRUE, summaryOk |-> TRUE]] : a \in BOOLEAN }
TbcStoreOutcomes ==
    { [i \in 1..RowsOfBank("TBC") |->
          [statementOk |-> TRUE, movementsOk |-> m]] : m \in BOOLEAN }

InitStore ==
    /\ bankLedger \in RunLedgers
    /\ fetchResult = NoFetch
    /\ banksXlsx \in Sheets
    /\ successLog = {}
    /\ downloadLog = NoDownloadLog
    /\ runResult = NoRun
    /\ IdleEtl

\* get_all_transactions(end_date) of src/src/bog_api.py and the write of what
\* it returned.
RunBogGetAllTransactionsAndWrite ==
    \E end_date \in Days, outcomes \in BogStoreOutcomes :
        LET out == BogGetAllTransactions(banksXlsx, successLog, end_date, outcomes)
        IN /\ Len(bogTable) + Len(tbcTable) + Len(out.records) <= MaxStored
           /\ bogTable' = WriteTransactionsToSqlite(bogTable, out.records)
           /\ successLog' = out.log
           /\ runResult' = [NoRun EXCEPT !.op = "bog_api.get_all_transactions",
                                         !.bank = "BOG"]
           /\ UNCHANGED <<rateVars, fetchVars, tbcTable, mainVars, banksXlsx, downloadLog, etlVars>>

\* fetch_and_write_transactions_for_specific_day(specific_date).
RunFetchAndWriteTransactionsForSpecificDay ==
    \E specific_date \in Days, outcomes \in BogStoreOutcomes :
        LET df_transactions ==
                FetchTransactionsForSpecificDay(banksXlsx, specific_date, outcomes)
        IN /\ Len(bogTable) + Len(tbcTable) + Len(df_transactions) <= MaxStored
           /\ bogTable' = WriteTransactionsToSqlite(bogTable, df_transactions)
           /\ runResult' = [NoRun EXCEPT
                               !.op = "fetch_and_write_transactions_for_specific_day",
                               !.bank = "BOG"]
           /\ UNCHANGED <<rateVars, fetchVars, tbcTable, mainVars, banksXlsx,
                          successLog, downloadLog, etlVars>>

\* download_missing_days(start_date), on a database that has the table
\* tbc_transactions.
RunDownloadMissingDays ==
    \E start_date \in {None} \cup {Some(d) : d \in Days},
       outcomes \in TbcStoreOutcomes :
        LET out == DownloadMissingDays(banksXlsx, tbcTable, downloadLog, start_date,
                                       outcomes)
        IN /\ Len(bogTable) + Len(out.table) <= MaxStored
           /\ tbcTable' = out.table
           /\ downloadLog' = out.log
           /\ runResult' = [NoRun EXCEPT !.op = "download_missing_days",
                                         !.bank = "TBC"]
           /\ UNCHANGED <<rateVars, fetchVars, bogTable, mainVars, banksXlsx, successLog, etlVars>>

NextStore ==
    \/ RunBogGetAllTransactionsAndWrite
    \/ RunFetchAndWriteTransactionsForSpecificDay
    \/ RunDownloadMissingDays

(***************************************************************************)
(* src/src/bog_api.py: get_all_transactions(end_date) and the write of     *)
(* what it returned, step by step                                          *)
(***************************************************************************)

\* How the token request of each account of a run goes.
IncrOutcomes ==
    [1..RowsOfBank("BOG") ->
        {o \in BogOutcomes : o.statementOk /\ o.summaryOk}]

InitIncr ==
    /\ bankLedger \in RunLedgers
    /\ fetchResult = NoFetch
    /\ banksXlsx \in {x \in Sheets : x.rows # <<>>}
    /\ successLog = {}
    /\ downloadLog = NoDownloadLog
    /\ runResult = NoRun
    /\ ratesCall = NoRatesCall
    /\ etl = NoEtl
    /\ download = NoDownload
    /\ bogRun = NoBogRun
    /\ historical = NoFile
    /\ reval = NoReval

\* get_all_transactions(end_date) runs and returns its frame: before is the
\* log it found, cursor_records the records fetched so far, each with the
\* end date of its run.
IncrGetAllTransactions ==
    /\ bogRun.pc \in {"idle", "written", "failed"}
    /\ bogRun.run < MaxRuns
    /\ \E end_date \in Days, outcomes \in IncrOutcomes :
          LET out == BogGetAllTransactions(banksXlsx, successLog, end_date, outcomes)
          IN /\ successLog' = out.log
             /\ bogRun' = [pc |-> "fetched", run |-> bogRun.run + 1,
                           end_date |-> end_date, before |-> successLog,
                           frame |-> out.records, requests |-> out.requests,
                           cursor_records |->
                               bogRun.cursor_records
                               \cup {[end_date |-> end_date, record |-> out.records[i]] :
                                        i \in 1..Len(out.records)}]
    /\ UNCHANGED <<rateVars, fetchVars, reportVars, banksXlsx, downloadLog, runResult,
                   ratesCall, etl, download, historical, reval>>

\* write_transactions_to_sqlite(df): the append, or an error of the database.
IncrWrite ==
    /\ bogRun.pc = "fetched"
    /\ \E dbOk \in BOOLEAN :
          /\ bogTable' = IF dbOk THEN WriteTransactionsToSqlite(bogTable, bogRun.frame)
                         ELSE bogTable
          /\ bogRun' = [bogRun EXCEPT !.pc = IF dbOk THEN "written" ELSE "failed"]
    /\ UNCHANGED <<rateVars, fetchVars, tbcTable, mainVars, banksXlsx, successLog,
                   downloadLog, runResult, ratesCall, etl, download, historical, reval>>

NextIncr ==
    \/ IncrGetAllTransactions
    \/ IncrWrite

(***************************************************************************)
(* src/src/tbc_api.py: download_missing_days, step by step                 *)
(***************************************************************************)

\* The largest max_retries of a run.
MaxRetries == 2

\* The retry count left as it is after an attempt that raised.
RetryCountKept(retry_count) == retry_count

\* retry_count += 1 after an attempt that raised.
RetryCountAfterFailure(retry_count) == retry_count + 1

\* What a date of the run came to: the attempts made, the status handed to
\* log_download_status, the transaction count, whether the log row was
\* written, and whether the movements request of an account failed in the
\* last attempt.
DateOutcome(d, attempts, status, transaction_count, logged, fetch_failed) ==
    [date |-> d, attempts |-> attempts, status |-> status,
     transaction_count |-> transaction_count, logged |-> logged,
     fetch_failed |-> fetch_failed]

\* The books of the runs: no entry on any day, or one credit every day; the
\* sheet of the accounts, or a sheet without the column ID.
\* No date of the run has come to its end.
NoDate == DateOutcome(-1, 0, "none", 0, FALSE, FALSE)

\* The run's record once a date has come to its end: the date's outcome, the
\* dates so far, whether each of them had its log row written, and the sum
\* of the transaction counts of those whose row says 'success'.
DateDone(run, outcome) ==
    [run EXCEPT !.last = outcome,
                !.dates_done = @ + 1,
                !.all_logged = @ /\ outcome.logged,
                !.success_total =
                    @ + IF outcome.status = "success" /\ outcome.logged
                        THEN outcome.transaction_count ELSE 0]

InitDownload ==
    /\ bankLedger \in {l \in RunLedgers : \A d \in Days : l[d] = l[0]}
    /\ fetchResult = NoFetch
    /\ banksXlsx \in {x \in Sheets : x.kind = "no_id" \/ x.rows # <<>>}
    /\ successLog = {}
    /\ downloadLog = NoDownloadLog
    /\ runResult = NoRun
    /\ ratesCall = NoRatesCall
    /\ etl = NoEtl
    /\ download = NoDownload
    /\ bogRun = NoBogRun
    /\ historical = NoFile
    /\ reval = NoReval

\* The start dates a run is called with: None at every run, a date at the
\* first run on the database.
StartDates(run) ==
    {None} \cup IF run = 0 THEN {Some(d) : d \in {0, MaxDay, Today}} ELSE {}

\* The max_retries a run is called with: that of the run before, if any.
RetryLimits(run) ==
    IF run.run = 0 THEN 0..MaxRetries ELSE {run.max_retries}

\* Whether the database does what it is asked, and how the bank answers: any
\* way in the first run; in the runs after it the database works and the
\* bank answers every request.
DbOks(run) == IF run = 1 THEN BOOLEAN ELSE {TRUE}
AttemptOutcomes(run) ==
    IF run = 1 THEN TbcStoreOutcomes
    ELSE {o \in TbcStoreOutcomes : \A i \in DOMAIN o : o[i].movementsOk}

\* download_missing_days(start_date, max_retries) is called, again after a
\* run with the default start date: today, the start date, current_date and
\* total_downloaded.  get_last_successful_date answers None when the
\* database raises.
DmdStart ==
    /\ download.pc \in {"idle", "done"}
    /\ download.run < MaxRuns
    /\ download.defaults
    /\ \E start_date \in StartDates(download.run),
          max_retries \in RetryLimits(download), dbOk \in DbOks(download.run + 1) :
          LET last_successful_date ==
                  IF dbOk THEN GetLastSuccessfulDate(downloadLog) ELSE None
              start == DownloadStartDate(start_date, last_successful_date)
          IN /\ downloadLog' = IF start_date = None /\ dbOk
                               THEN EnsureDownloadLog(downloadLog) ELSE downloadLog
             /\ download' = [pc |-> "outer", run |-> download.run + 1,
                             first_start |-> IF download.run = 0 THEN start
                                             ELSE download.first_start,
                             defaults |-> download.defaults /\ start_date = None,
                             max_retries |-> max_retries, start_date |-> start,
                             current_date |-> start, retry_count |-> 0,
                             success |-> FALSE, attempts |-> 0,
                             total_downloaded |-> 0, last |-> NoDate,
                             dates_done |-> 0, all_logged |-> TRUE,
                             success_total |-> 0]
    /\ UNCHANGED <<rateVars, fetchVars, reportVars, banksXlsx, successLog, runResult,
                   ratesCall, etl, bogRun, historical, reval>>

\* while current_date < today: the next date is taken up, or the total is
\* returned.
DmdOuter ==
    /\ download.pc = "outer"
    /\ download' = IF download.current_date < Today
                   THEN [download EXCEPT !.pc = "inner", !.retry_count = 0,
                                         !.success = FALSE, !.attempts = 0]
                   ELSE [download EXCEPT !.pc = "done"]
    /\ UNCHANGED <<rateVars, fetchVars, reportVars, banksXlsx, successLog, downloadLog,
                   runResult, ratesCall, etl, bogRun, historical, reval>>

\* One pass of the inner loop: get_all_transactions of the date, the write of
\* a frame that is not empty, the count added to the total and 'success'
\* logged; or, when get_all_transactions or the write raised, the retry
\* count and, at max_retries, 'failed' logged.  log_download_status catches
\* the errors of the database.
DmdAttempt ==
    /\ download.pc = "inner"
    /\ download.retry_count < download.max_retries /\ ~download.success
    /\ \E outcomes \in AttemptOutcomes(download.run),
          writeOk \in DbOks(download.run), logOk \in DbOks(download.run) :
          LET d == download.current_date
              df == TbcGetAllTransactions(banksXlsx, d, d, outcomes)
              raised == df.raised \/ (df.records # <<>> /\ ~writeOk)
              fetch_failed ==
                  \E i \in 1..Len(df.fetched) : ~outcomes[df.fetched[i]].movementsOk
              transaction_count == Len(df.records)
              retry_count == RetryCountAfterFailure(download.retry_count)
              attempts == download.attempts + 1
              logged == logOk /\ downloadLog.exists
              Log(status, n) ==
                  IF logOk THEN LogDownloadStatus(downloadLog, d, status, n)
                  ELSE downloadLog
          IN IF ~raised
             THEN /\ tbcTable' = WriteTransactionsToSqlite(tbcTable, df.records)
                  /\ downloadLog' = Log("success", transaction_count)
                  /\ download' =
                        DateDone([download EXCEPT
                                     !.success = TRUE, !.attempts = attempts,
                                     !.total_downloaded = @ + transaction_count],
                                 DateOutcome(d, attempts, "success", transaction_count,
                                             logged, fetch_failed))
             ELSE IF retry_count >= download.max_retries
             THEN /\ tbcTable' = tbcTable
                  /\ downloadLog' = Log("failed", 0)
                  /\ download' =
                        DateDone([download EXCEPT
                                     !.success = TRUE, !.attempts = attempts,
                                     !.retry_count = retry_count],
                                 DateOutcome(d, attempts, "failed", 0, logged,
                                             fetch_failed))
             ELSE /\ tbcTable' = tbcTable
                  /\ downloadLog' = downloadLog
                  /\ download' = [download EXCEPT !.attempts = attempts,
                                                  !.retry_count = retry_count]
    /\ UNCHANGED <<rateVars, fetchVars, bogTable, mainVars, banksXlsx, successLog,
                   runResult, ratesCall, etl, bogRun, historical, reval>>

\* The inner loop has ended: current_date = get_next_date(current_date).
DmdNextDate ==
    /\ download.pc = "inner"
    /\ ~(download.retry_count < download.max_retries /\ ~download.success)
    /\ download' = [download EXCEPT !.pc = "outer",
                                    !.current_date = NextDate(@)]
    /\ UNCHANGED <<rateVars, fetchVars, reportVars, banksXlsx, successLog, downloadLog,
                   runResult, ratesCall, etl, bogRun, historical, reval>>

NextDownload ==
    \/ DmdStart
    \/ DmdOuter
    \/ DmdAttempt
    \/ DmdNextDate

(***************************************************************************)
(* src/get_currency_daily_01.py: get_daily_currency_rates                  *)
(***************************************************************************)

\* The columns get_daily_currency_rates selects.
RequiredFields == {"date", "datetime", "bank", "currency", "buy", "sell"}

\* A record as get_bog_exchange_rate and get_tbc_exchange_rates build it: the
\* six keys, buy and sell null when the bank's answer lacks them.
RateRecord(bank, currency, buy, sell) ==
    [date |-> "today", datetime |-> "now", bank |-> bank, currency |-> currency,
     buy |-> buy, sell |-> sell]

\* A record with none of the six keys, as the tests' stand-ins for the two
\* sources return it.
OtherRecord == [foo |-> "bar"]

\* What get_bog_exchange_rate(currency) returns: None on a failure, or a
\* record.
BogAnswerKinds == {"none", "rate", "null", "other"}
BogAnswer(kind, currency) ==
    IF kind = "none" THEN None
    ELSE IF kind = "rate" THEN Some(RateRecord("BOG", currency, "2.70", "2.75"))
    ELSE IF kind = "null" THEN Some(RateRecord("BOG", currency, NaN, NaN))
    ELSE Some(OtherRecord)

\* What get_tbc_exchange_rates(currencies) returns: [] on a failure, or the
\* records of the list.
TbcAnswers ==
    { <<>>,
      <<RateRecord("TBC", "USD", "2.69", "2.76")>>,
      <<RateRecord("TBC", "USD", NaN, NaN)>>,
      <<RateRecord("TBC", "USD", "2.69", "2.76"), RateRecord("TBC", "EUR", "3.00", "3.05")>>,
      <<OtherRecord>>,
      <<RateRecord("TBC", "USD", "2.69", "2.76"), OtherRecord>> }

\* get_daily_currency_rates(currencies): the BOG records that are not None,
\* then the TBC records; pd.DataFrame() when there is none; else the frame
\* of the records restricted to the six columns, a KeyError when one of the
\* six is a key of no record.
GetDailyCurrencyRates(currencies, bog, tbc) ==
    LET all_rates ==
            Flatten([i \in 1..Len(currencies) |->
                        IF bog[i] # None THEN <<CHOOSE r \in bog[i] : TRUE>> ELSE <<>>])
            \o tbc
        columns == UNION {DOMAIN all_rates[i] : i \in 1..Len(all_rates)}
    IN IF all_rates = <<>> THEN [raised |-> FALSE, rows |-> <<>>]
       ELSE IF ~(RequiredFields \subseteq columns) THEN [raised |-> TRUE, rows |-> <<>>]
       ELSE [raised |-> FALSE,
             rows |-> [i \in 1..Len(all_rates) |->
                          [f \in RequiredFields |->
                              IF f \in DOMAIN all_rates[i] THEN all_rates[i][f] ELSE NaN]]]

\* The lists of currencies of a call.
CurrencyLists == { <<"USD">>, <<"USD", "EUR">> }

\* The call's record: what the two sources returned and what the call did.
RatesCallOf(currencies, bog, tbc) ==
    LET out == GetDailyCurrencyRates(currencies, bog, tbc)
    IN [op |-> "get_daily_currency_rates", currencies |-> currencies,
        bog |-> bog, tbc |-> tbc, raised |-> out.raised, rows |-> out.rows]

InitCurrency ==
    /\ banksXlsx = [kind |-> "ok", rows |-> <<>>]
    /\ successLog = {}
    /\ downloadLog = NoDownloadLog
    /\ runResult = NoRun
    /\ IdleEtl

\* get_daily_currency_rates(currencies) is called, once.
CallGetDailyCurrencyRates ==
    /\ ratesCall = NoRatesCall
    /\ \E currencies \in CurrencyLists, tbc \in TbcAnswers :
         \E kinds \in [1..Len(currencies) -> BogAnswerKinds] :
            ratesCall' = RatesCallOf(currencies,
                                     [i \in 1..Len(currencies) |->
                                         BogAnswer(kinds[i], currencies[i])],
                                     tbc)
    /\ UNCHANGED <<rateVars, fetchVars, reportVars, banksXlsx, successLog, downloadLog,
                   runResult, etl, jobVars>>

NextCurrency ==
    \/ CallGetDailyCurrencyRates

(***************************************************************************)
(* src/get_currency_daily_01.py: append_to_historical_rates                *)
(***************************************************************************)

\* The three columns that identify a rate of the historical file.
KeyOf(row) == <<row.date, row.bank, row.currency>>
KeysOf(rows) == {KeyOf(rows[i]) : i \in 1..Len(rows)}

\* The order of the strings of the columns bank and currency; the column
\* date holds '%Y-%m-%d' strings, which sort as their days do.
StringOrder == <<"BOG", "EUR", "TBC", "USD">>
Rank(str) == CHOOSE i \in 1..Len(StringOrder) : StringOrder[i] = str
KeyLessEq(a, b) ==
    \/ a.date < b.date
    \/ a.date = b.date /\ Rank(a.bank) < Rank(b.bank)
    \/ a.date = b.date /\ a.bank = b.bank /\ Rank(a.currency) <= Rank(b.currency)

\* combined_df.sort_values(['date', 'bank', 'currency']): rows of equal key
\* keep their order.
RECURSIVE SortValues(_)
SortValues(rows) ==
    IF rows = <<>> THEN <<>>
    ELSE LET sorted == SortValues(SubSeq(rows, 1, Len(rows) - 1))
             row == rows[Len(rows)]
             k == Cardinality({i \in 1..Len(sorted) : KeyLessEq(sorted[i], row)})
         IN SubSeq(sorted, 1, k) \o <<row>> \o SubSeq(sorted, k + 1, Len(sorted))

\* append_to_historical_rates(new_rates_df, historical_file): nothing on an
\* empty frame; on a file that exists the rows of the frame whose key the
\* file does not hold are concatenated to the file's rows, sorted and
\* written; on no file the frame is written as it is. An error of the
\* reading or of the writing is caught and logged.
AppendToHistoricalRates(file, new_rates, writeOk) ==
    IF new_rates = <<>> THEN [exists |-> file.exists, rows |-> file.rows, written |-> FALSE]
    ELSE IF file.exists
    THEN LET existing_combinations == KeysOf(file.rows)
             unique_new_rates ==
                 SelectSeq(new_rates, LAMBDA r : KeyOf(r) \notin existing_combinations)
         IN IF unique_new_rates # <<>> /\ writeOk
            THEN [exists |-> TRUE, rows |-> SortValues(file.rows \o unique_new_rates),
                  written |-> TRUE]
            ELSE [exists |-> TRUE, rows |-> file.rows, written |-> unique_new_rates = <<>>]
    ELSE IF writeOk THEN [exists |-> TRUE, rows |-> new_rates, written |-> TRUE]
         ELSE [exists |-> FALSE, rows |-> file.rows, written |-> FALSE]

\* A row of the frame of get_daily_currency_rates on day d: fetch tells one
\* fetch of the day from another, with its own datetime, buy and sell.
HistoricalRow(d, fetch, pair) ==
    [date |-> d, datetime |-> fetch, bank |-> pair[1], currency |-> pair[2],
     buy |-> 270 + fetch, sell |-> 275 + fetch]

\* The frames handed over: empty, or one or two rows of one day and one
\* fetch, the bank asked once per entry of the list of currencies.
BankCurrencyPairs == {"BOG", "TBC"} \X {"USD", "EUR"}
NewRatesFrames ==
    {<<>>} \cup
    { [i \in 1..Len(pairs) |-> HistoricalRow(d, fetch, pairs[i])] :
        d \in Days, fetch \in 1..2,
        pairs \in UNION {[1..n -> BankCurrencyPairs] : n \in 1..2} }

\* No historical file yet: the first call creates it.
InitHistorical ==
    /\ IdleFetch
    /\ IdleRuns

\* append_to_historical_rates(new_rates_df) is called.
CallAppendToHistoricalRates ==
    /\ historical.appends < MaxRuns
    /\ \E new_rates \in NewRatesFrames, writeOk \in BOOLEAN :
         LET out == AppendToHistoricalRates(historical, new_rates, writeOk)
         IN historical' = [exists |-> out.exists, rows |-> out.rows, batch |-> new_rates,
                           appends |-> historical.appends + 1, written |-> out.written]
    /\ UNCHANGED <<rateVars, fetchVars, reportVars, banksXlsx, successLog, downloadLog,
                   runResult, ratesCall, etl, download, bogRun, reval>>

NextHistorical ==
    \/ CallAppendToHistoricalRates

(***************************************************************************)
(* src/src/bank_api/main.py: main                                          *)
(***************************************************************************)

\* The three stages, in the order of main().
Stages == <<"bog", "tbc", "rates">>

\* Where main() goes after the try block of a stage, whether the block ended
\* or raised, with a raise taken to end the run.
AfterStageEndOnRaise(stage, raised) ==
    IF raised THEN "done"
    ELSE IF stage = "bog" THEN "tbc_fetch"
    ELSE IF stage = "tbc" THEN "rates_fetch"
    ELSE "checklist"

\* Where main() goes after the try block of a stage, whether the block ended
\* or raised: `except Exception` logs and the next block follows.
AfterStage(stage, raised) ==
    IF stage = "bog" THEN "tbc_fetch"
    ELSE IF stage = "tbc" THEN "rates_fetch"
    ELSE "checklist"

\* A call main() made: the function, the stage, the frame it was given
\* (a write) or returned (a fetch), and whether it raised.
EtlCall(kind, stage, frame, raised) ==
    [kind |-> kind, stage |-> stage, frame |-> frame, raised |-> raised]

\* What main() does after the fetch of a stage: the write follows when the
\* fetch returned, the next stage when it raised.
AfterFetch(stage, out) ==
    [pc |-> IF out.raised THEN AfterStage(stage, TRUE)
            ELSE IF stage = "bog" THEN "bog_write"
            ELSE IF stage = "tbc" THEN "tbc_write"
            ELSE "rates_write",
     frame |-> IF out.raised THEN <<>> ELSE out.records,
     calls |-> Append(etl.calls, EtlCall("fetch", stage, out.records, out.raised))]

\* What main() does after the write of a stage.
AfterWrite(stage, raised) ==
    [pc |-> AfterStage(stage, raised),
     frame |-> <<>>,
     calls |-> Append(etl.calls, EtlCall("write", stage, etl.frame, raised))]

\* main() starts on a database with empty tables: setup_logger has returned.
InitEtl ==
    /\ bankLedger \in RunLedgers
    /\ fetchResult = NoFetch
    /\ banksXlsx \in Sheets
    /\ successLog = {}
    /\ downloadLog = NoDownloadLog
    /\ runResult = NoRun
    /\ ratesCall = NoRatesCall
    /\ etl = [pc |-> "bog_fetch", frame |-> <<>>, calls |-> <<>>]
    /\ IdleJobs

\* bog_df = get_bog_transactions(start_date, end_date)
EtlGetBogTransactions ==
    /\ etl.pc = "bog_fetch"
    /\ \E outcomes \in BogStoreOutcomes :
          etl' = AfterFetch("bog", BankApiBogGetAllTransactions(banksXlsx, 0, MaxDay,
                                                                 outcomes))
    /\ UNCHANGED <<rateVars, fetchVars, reportVars, banksXlsx, successLog, downloadLog,
                   runResult, ratesCall, jobVars>>

\* write_bog_to_sqlite(bog_df): the append, or an error of the database.
EtlWriteBogToSqlite ==
    /\ etl.pc = "bog_write"
    /\ \E dbOk \in BOOLEAN :
          /\ bogTable' = IF dbOk THEN WriteTransactionsToSqlite(bogTable, etl.frame)
                         ELSE bogTable
          /\ etl' = AfterWrite("bog", ~dbOk)
    /\ UNCHANGED <<rateVars, fetchVars, tbcTable, mainVars, banksXlsx, successLog,
                   downloadLog, runResult, ratesCall, jobVars>>

\* tbc_df = get_tbc_transactions(start_date, end_date)
EtlGetTbcTransactions ==
    /\ etl.pc = "tbc_fetch"
    /\ \E outcomes \in TbcStoreOutcomes :
          etl' = AfterFetch("tbc", BankApiTbcGetAllTransactions(banksXlsx, 0, MaxDay,
                                                                 outcomes))
    /\ UNCHANGED <<rateVars, fetchVars, reportVars, banksXlsx, successLog, downloadLog,
                   runResult, ratesCall, jobVars>>

\* write_tbc_to_sqlite(tbc_df): the append, or an error of the database.
EtlWriteTbcToSqlite ==
    /\ etl.pc = "tbc_write"
    /\ \E dbOk \in BOOLEAN :
          /\ tbcTable' = IF dbOk THEN WriteTransactionsToSqlite(tbcTable, etl.frame)
                         ELSE tbcTable
          /\ etl' = AfterWrite("tbc", ~dbOk)
    /\ UNCHANGED <<rateVars, fetchVars, bogTable, mainVars, banksXlsx, successLog,
                   downloadLog, runResult, ratesCall, jobVars>>

\* rates_df = get_daily_currency_rates(currencies), the two sources answering
\* with records of their own making.
EtlGetDailyCurrencyRates ==
    /\ etl.pc = "rates_fetch"
    /\ \E kind \in {"none", "rate", "null"},
          tbc \in {t \in TbcAnswers : \A i \in 1..Len(t) : t[i] # OtherRecord} :
          LET currencies == <<"USD", "EUR">>
              call == RatesCallOf(currencies,
                                  [i \in 1..Len(currencies) |->
                                      BogAnswer(kind, currencies[i])],
                                  tbc)
          IN /\ ratesCall' = call
             /\ etl' = AfterFetch("rates", [raised |-> call.raised, records |-> call.rows])
    /\ UNCHANGED <<rateVars, fetchVars, reportVars, banksXlsx, successLog, downloadLog,
                   runResult, jobVars>>

\* write_rates_to_sqlite(rates_df): it returns or it raises.
EtlWriteRatesToSqlite ==
    /\ etl.pc = "rates_write"
    /\ \E dbOk \in BOOLEAN : etl' = AfterWrite("rates", ~dbOk)
    /\ UNCHANGED <<rateVars, fetchVars, reportVars, banksXlsx, successLog, downloadLog,
                   runResult, ratesCall, jobVars>>

\* The TLS certificate checklist, in a try of its own, and the end of main().
EtlTlsChecklist ==
    /\ etl.pc = "checklist"
    /\ etl' = [etl EXCEPT !.pc = "done"]
    /\ UNCHANGED <<rateVars, fetchVars, reportVars, banksXlsx, successLog, downloadLog,
                   runResult, ratesCall, jobVars>>

NextEtl ==
    \/ EtlGetBogTransactions
    \/ EtlWriteBogToSqlite
    \/ EtlGetTbcTransactions
    \/ EtlWriteTbcToSqlite
    \/ EtlGetDailyCurrencyRates
    \/ EtlWriteRatesToSqlite
    \/ EtlTlsChecklist

(***************************************************************************)
(* src/src/excel_report_generator.py: the stored transactions              *)
(***************************************************************************)

\* A null date (NaT) of a date column.
NaT == -1

\* The days a stored transaction may carry: each has a previous day in Days.
TxDays == 1..MaxDay

\* The rows the two tables hold together, at most.
MaxRows == 2

\* A row of bog_transactions, with the columns the report reads.
BogRow(company, account, currency, d, debit, credit, opening) ==
    [company |-> company, account_number |-> account, currency |-> currency,
     entry_date |-> d, entry_amount_debit |-> debit, entry_amount_credit |-> credit,
     entry_amount |-> debit + credit, opening_balance |-> opening]

\* A row of tbc_transactions, with the columns the report reads.
TbcRow(company, account, currency, d, amount, debitCredit, opening) ==
    [company |-> company, account_number |-> account, currency |-> currency,
     valueDate |-> d, amount |-> amount, debitCredit |-> debitCredit,
     opening_balance |-> opening]

\* The rows bog_transactions may hold, in the order they were stored:
\* foreign-currency and GEL entries of two companies, an entry whose balances
\* the fetcher left null, an entry of an account whose currency code the NBG
\* does not list, and a GEL entry the bank sent without a date.
BogRowMenu ==
    << BogRow("CO1", "ACC1", "USD", 1, 50, 0, Some(1000)),
       BogRow("CO1", "ACC1", "USD", MaxDay, 0, 80, None),
       BogRow("CO1", "ACC2", "GEL", 1, 50, 0, Some(100)),
       BogRow("CO2", "ACC3", "EUR", 1, 0, 80, Some(1000)),
       BogRow("CO1", "ACC4", "XXX", 1, 50, 0, Some(100)),
       BogRow("CO2", "ACC5", "GEL", NaT, 0, 80, Some(100)) >>

\* The rows tbc_transactions may hold, in the order they were stored.
TbcRowMenu ==
    << TbcRow("CO1", "TACC1", "USD", 1, 80, "1", Some(1000)),
       TbcRow("CO1", "TACC1", "USD", MaxDay, 50, "0", None),
       TbcRow("CO2", "TACC2", "GEL", 1, 50, "0", Some(100)),
       TbcRow("CO2", "TACC2", "GEL", NaT, 80, "1", Some(100)) >>

\* The rows of a menu at the places S, in the menu's order.
RECURSIVE Pick(_, _, _)
Pick(menu, S, i) ==
    IF i > Len(menu) THEN <<>>
    ELSE (IF i \in S THEN <<menu[i]>> ELSE <<>>) \o Pick(menu, S, i + 1)

\* The tables of at most n rows of a menu.
TablesOf(menu, n) ==
    { Pick(menu, S, 1) : S \in {X \in SUBSET (1..Len(menu)) : Cardinality(X) <= n} }

\* One account's entries of one day, as the fetchers store them: every row
\* of the day carries the day's opening balance.
DayOpenings == {None, Some(100), Some(1000)}
BogDayAmounts == { <<0, 0>>, <<50, 0>>, <<0, 80>> }
TbcDayAmounts == { <<0, "0">>, <<50, "0">>, <<80, "1">> }

BogDayTables ==
    UNION { { [i \in 1..k |-> BogRow("CO1", "ACC1", "USD", d, a[i][1], a[i][2], ob)] :
                a \in [1..k -> BogDayAmounts], d \in TxDays, ob \in DayOpenings } :
            k \in 1..MaxRows }

TbcDayTables ==
    UNION { { [i \in 1..k |-> TbcRow("CO1", "TACC1", "USD", d, a[i][1], a[i][2], ob)] :
                a \in [1..k -> TbcDayAmounts], d \in TxDays, ob \in DayOpenings } :
            k \in 1..MaxRows }

\* What bank_data.db may hold when the report generator starts: rows of the
\* two menus, or one account's day at one of the banks.
StoredTables ==
    { <<b, t>> : b \in TablesOf(BogRowMenu, MaxRows), t \in TablesOf(TbcRowMenu, MaxRows) }

(***************************************************************************)
(* src/src/excel_report_generator.py: map_and_transform_*                  *)
(***************************************************************************)

\* The calculated columns that call get_nbg_rate, in the order of
\* BOG_DB_TO_REPORT and TBC_DB_TO_REPORT.  amountGel is the column
\* "თანხა ექვ ლარში", rate is "კურსი", openingGel is "საწყისი ნაშთი ექვ
\* ლარში", outgoingGel is "გასული თანხა ექვ." and incomingGel is "შემოსული
\* თანხა ექვ.".
BogRateColumns == <<"amountGel", "rate", "openingGel">>
TbcRateColumns == <<"outgoingGel", "incomingGel", "rate">>

\* read_bog_transactions, and the columns map_and_transform_bog copies.  A
\* calculated cell not yet assigned is None.  debit is "დებეტი", credit is
\* "კრედიტი", opening is "საწყისი ნაშთი", amount is "თანხა", date is "თარიღი".
ReadBogTransactions(table) ==
    [i \in 1..Len(table) |->
        [idx |-> i,
         raw_company |-> table[i].company,
         raw_account_number |-> table[i].account_number,
         raw_currency |-> table[i].currency,
         raw_date |-> table[i].entry_date,
         Company |-> table[i].company,
         Curr |-> table[i].currency,
         date |-> table[i].entry_date,
         debit |-> table[i].entry_amount_debit,
         credit |-> table[i].entry_amount_credit,
         opening |-> table[i].opening_balance,
         amount |-> table[i].entry_amount,
         amountGel |-> None, rate |-> None, openingGel |-> None]]

\* read_tbc_transactions, and the columns map_and_transform_tbc copies or
\* derives without a rate.  outgoing is "გასული თანხა" (the amount when
\* debitCredit is '0', else ''), incoming is "შემოსული თანხა" (the amount when
\* debitCredit is '1', else '').
ReadTbcTransactions(table) ==
    [i \in 1..Len(table) |->
        [idx |-> i,
         raw_company |-> table[i].company,
         raw_account_number |-> table[i].account_number,
         raw_currency |-> table[i].currency,
         raw_date |-> table[i].valueDate,
         Company |-> table[i].company,
         Curr |-> table[i].currency,
         date |-> table[i].valueDate,
         opening |-> table[i].opening_balance,
         amount |-> table[i].amount,
         debitCredit |-> table[i].debitCredit,
         outgoing |-> IF table[i].debitCredit = "0" THEN Some(table[i].amount) ELSE None,
         incoming |-> IF table[i].debitCredit = "1" THEN Some(table[i].amount) ELSE None,
         outgoingGel |-> None, incomingGel |-> None, rate |-> None]]

\* The date object of a row, as get_nbg_rate receives it.
DateArg(d) == [kind |-> "date", day |-> d]

\* Whether the cell of column col of a row is computed with a rate.
NeedsRate(bank, col, row) ==
    \/ bank = "BOG"
    \/ col = "rate"
    \/ col = "outgoingGel" /\ row.debitCredit = "0"
    \/ col = "incomingGel" /\ row.debitCredit = "1"

\* The value of a calculated cell, given the number get_nbg_rate returned.
\* A null opening_balance of bog_transactions reads as None when the whole
\* column is null (None or 0 is 0) and as NaN otherwise (NaN stays NaN).
CellValue(bank, col, row, df, r) ==
    IF col = "rate" THEN Some(r)
    ELSE IF col = "openingGel"
    THEN IF row.opening # None THEN Some((CHOOSE x \in row.opening : TRUE) * r)
         ELSE IF \A i \in 1..Len(df) : df[i].opening = None THEN Some(0)
         ELSE None
    ELSE Some(row.amount * r)

(***************************************************************************)
(* src/src/excel_report_generator.py: add_foreign_currency_summary_rows    *)
(***************************************************************************)

\* The order in which groupby yields its keys: the account numbers and the
\* currency codes in lexicographic order.
AccountOrder == <<"ACC1", "ACC2", "ACC3", "ACC4", "ACC5", "TACC1", "TACC2">>
CurrencyOrder == <<"EUR", "GEL", "USD", "XXX">>

GroupKeyOrder ==
    [k \in 1..(Len(AccountOrder) * Len(CurrencyOrder)) |->
        [account |-> AccountOrder[((k - 1) \div Len(CurrencyOrder)) + 1],
         currency |-> CurrencyOrder[((k - 1) % Len(CurrencyOrder)) + 1]]]

\* Whether a row of the frame falls in the group of a key.  groupby drops the
\* rows with a null in one of the four key columns.
InGroup(row, key) ==
    /\ row.raw_account_number = key.account
    /\ row.raw_currency = key.currency
    /\ row.raw_company # NaN
    /\ row.raw_date # NaT

\* The groups of the whole frame, the rows of GEL accounts included.
ForeignGroupsOfAllRows(df) ==
    LET Present(key) == \E i \in 1..Len(df) : InGroup(df[i], key)
    IN SelectSeq(GroupKeyOrder, Present)

\* The groups of foreign_df, in order.  The frame write_excel passes holds
\* one company and one date, so (account, currency) tells the groups apart.
ForeignGroups(df) ==
    LET foreign_df == SelectSeq(df, LAMBDA row : row.raw_currency # "GEL")
        Present(key) == \E i \in 1..Len(foreign_df) : InGroup(foreign_df[i], key)
    IN SelectSeq(GroupKeyOrder, Present)

Abs(x) == IF x < 0 THEN -x ELSE x

\* A number read with pd.to_numeric(..., errors='coerce') and a null made 0.
NumOrZero(x) == IF x = None THEN 0 ELSE CHOOSE v \in x : TRUE

\* term1, term2, term3 and exchange_diff with term3 left out of the sum.
ExchangeDiffWithoutTerm3(opening_balance, turnover, today_rate, previous_day_rate) ==
    LET term1 == opening_balance * previous_day_rate
        term2 == (opening_balance + turnover) * today_rate
        term3 == turnover * today_rate
    IN [term1 |-> term1, term2 |-> term2, term3 |-> term3,
        exchange_diff |-> term1 - term2]

\* term1, term2, term3 and exchange_diff.
ExchangeDiff(opening_balance, turnover, today_rate, previous_day_rate) ==
    LET term1 == opening_balance * previous_day_rate
        term2 == (opening_balance + turnover) * today_rate
        term3 == turnover * today_rate
    IN [term1 |-> term1, term2 |-> term2, term3 |-> term3,
        exchange_diff |-> term1 - term2 + term3]

\* The sign mapping with a positive adjustment written to both columns.
DebitCreditColumnsBothSides(exchange_diff) ==
    IF exchange_diff < 0 THEN [dr |-> Some(exchange_diff), cr |-> None]
    ELSE IF exchange_diff > 0
    THEN [dr |-> Some(exchange_diff), cr |-> Some(Abs(exchange_diff))]
    ELSE [dr |-> Some(0), cr |-> Some(0)]

\* The sign mapping of the summary row: a negative exchange_diff goes, as it
\* is, to the debit-equivalent column and the credit-equivalent column is
\* emptied; a positive one goes as abs() to the credit-equivalent column and
\* the debit-equivalent column is emptied; 0 goes to both.
DebitCreditColumns(exchange_diff) ==
    IF exchange_diff < 0 THEN [dr |-> Some(exchange_diff), cr |-> None]
    ELSE IF exchange_diff > 0 THEN [dr |-> None, cr |-> Some(Abs(exchange_diff))]
    ELSE [dr |-> Some(0), cr |-> Some(0)]

\* What add_foreign_currency_summary_rows returns: pd.concat([df, summary_df])
\* when there are summary rows, df itself otherwise.
WithSummaryRows(df, summary_rows) ==
    IF summary_rows # <<>> THEN df \o summary_rows ELSE df

\* The body of the loop over the groups, for one group: the summary row and
\* the table nbg_fx_rates after the two calls of get_nbg_rate.  debitGel is
\* the column 'დებეტი ექვ ლარში' (BOG) or 'შემოსული თანხა ექვ.' (TBC),
\* creditGel is 'კრედიტი ექვ ლარში' or 'გასული თანხა ექვ.'; an empty string
\* is None.  The fields opening_balance, turnover, previous_day_rate and
\* exchange_diff are the loop's locals of those names.
SummaryRow(bank_type, df, key, db, up1, dbOk1, up2, dbOk2) ==
    LET group == SelectSeq(df, LAMBDA row : InGroup(row, key))
        company == group[1].raw_company
        date == group[1].raw_date
        opening_balance == NumOrZero(group[1].opening)
        total_debit_for_turnover ==
            SeqSum([i \in 1..Len(group) |->
                IF bank_type = "BOG" THEN group[i].debit ELSE NumOrZero(group[i].incoming)])
        total_credit_for_turnover ==
            SeqSum([i \in 1..Len(group) |->
                IF bank_type = "BOG" THEN group[i].credit ELSE NumOrZero(group[i].outgoing)])
        turnover == total_credit_for_turnover - total_debit_for_turnover
        today == GetNbgRate(db, key.currency, DateArg(date), up1, dbOk1)
        previous == GetNbgRate(today.db, key.currency, DateArg(date - 1), up2, dbOk2)
        today_rate == NumOrZero(today.result)
        previous_day_rate == NumOrZero(previous.result)
        t == ExchangeDiff(opening_balance, turnover, today_rate, previous_day_rate)
    IN [db |-> previous.db,
        row |-> [bank |-> bank_type,
                 Company |-> company,
                 Curr |-> key.currency,
                 date |-> date,
                 account |-> key.account,
                 debitGel |-> DebitCreditColumns(t.exchange_diff).dr,
                 creditGel |-> DebitCreditColumns(t.exchange_diff).cr,
                 amountGel |-> IF bank_type = "BOG" THEN Some(t.exchange_diff) ELSE None,
                 rate |-> today_rate,
                 opening |-> IF bank_type = "TBC" THEN Some(opening_balance) ELSE None,
                 term1 |-> t.term1, term2 |-> t.term2, term3 |-> t.term3,
                 opening_balance |-> opening_balance,
                 turnover |-> turnover,
                 previous_day_rate |-> previous_day_rate,
                 exchange_diff |-> t.exchange_diff]]

(***************************************************************************)
(* src/src/building_excel.py: the revaluation row of                       *)
(* generate_daily_bank_report, next to the summary row of                  *)
(* src/src/excel_report_generator.py                                       *)
(***************************************************************************)

\* 0.005 GEL, the amounts in hundredths and the rates in hundredths.
SmallRevaluation == 50

\* The revaluation of one (company, account_number, currency) of
\* daily_summary: the closing balance at the current rate less the opening
\* balance at the previous day's rate and the day's turnover in GEL; below
\* 0.005 it is 0; a loss goes as abs() to reval_debit_gel, a gain to
\* reval_credit_gel.
RevaluationRow(opening_balance_fc, closing_balance_fc, total_debit_gel_eq, total_credit_gel_eq, current_nbg_rate, previous_nbg_rate) ==
    LET opening_balance_gel_prev_day == opening_balance_fc * previous_nbg_rate
        net_turnover_gel_from_transactions == total_credit_gel_eq - total_debit_gel_eq
        computed == (closing_balance_fc * current_nbg_rate)
                    - (opening_balance_gel_prev_day + net_turnover_gel_from_transactions)
        revaluation_amount_gel == IF Abs(computed) < SmallRevaluation THEN 0 ELSE computed
    IN [revaluation_amount_gel |-> revaluation_amount_gel,
        reval_debit_gel |-> IF revaluation_amount_gel < 0 THEN Abs(revaluation_amount_gel) ELSE 0,
        reval_credit_gel |-> IF revaluation_amount_gel > 0 THEN revaluation_amount_gel ELSE 0]

\* The summary row of add_foreign_currency_summary_rows for a group with
\* these balances, turnover and rates.
GeneratorRow(opening_balance, total_debit, total_credit, today_rate, previous_day_rate) ==
    LET turnover == total_credit - total_debit
        t == ExchangeDiff(opening_balance, turnover, today_rate, previous_day_rate)
    IN [exchange_diff |-> t.exchange_diff,
        debitGel |-> DebitCreditColumns(t.exchange_diff).dr,
        creditGel |-> DebitCreditColumns(t.exchange_diff).cr]

\* One foreign-currency group of a day, as both reports meet it: the opening
\* balance of the first transaction, the day's debits and credits, the
\* closing balance of the last transaction and the GEL amounts of the
\* turnover the bank stored, and the NBG rates of the day and of the day
\* before.
RevalAmounts == {0, 1, 100}
RevalRates == {270, 275, 280}
RevalGroups ==
    { [opening |-> ob, debit |-> dr, credit |-> cr,
       closing |-> IF settled THEN ob + cr - dr ELSE ob,
       debit_gel |-> dr * (IF at_today THEN tr ELSE pr),
       credit_gel |-> cr * (IF at_today THEN tr ELSE pr),
       today_rate |-> tr, previous_rate |-> pr] :
        ob \in {-100} \cup RevalAmounts, dr \in RevalAmounts, cr \in RevalAmounts,
        settled \in BOOLEAN, at_today \in BOOLEAN,
        tr \in RevalRates, pr \in RevalRates }

InitReval ==
    /\ IdleFetch
    /\ banksXlsx = [kind |-> "ok", rows |-> <<>>]
    /\ successLog = {}
    /\ downloadLog = NoDownloadLog
    /\ runResult = NoRun
    /\ ratesCall = NoRatesCall
    /\ etl = NoEtl
    /\ download = NoDownload
    /\ bogRun = NoBogRun
    /\ historical = NoFile
    /\ \E g \in RevalGroups : reval = [pc |-> "group", group |-> g, building |-> None,
                                       generator |-> None]

\* generate_daily_bank_report builds the revaluation row of the group.
BuildingExcelRevaluation ==
    /\ reval.pc = "group"
    /\ reval.building = None
    /\ reval' = [reval EXCEPT !.building =
                    Some(RevaluationRow(reval.group.opening, reval.group.closing,
                                        reval.group.debit_gel, reval.group.credit_gel,
                                        reval.group.today_rate, reval.group.previous_rate))]
    /\ UNCHANGED <<rateVars, fetchVars, reportVars, banksXlsx, successLog, downloadLog,
                   runResult, ratesCall, etl, download, bogRun, historical>>

\* add_foreign_currency_summary_rows builds the summary row of the group.
GeneratorRevaluation ==
    /\ reval.pc = "group"
    /\ reval.generator = None
    /\ reval' = [reval EXCEPT !.generator =
                    Some(GeneratorRow(reval.group.opening, reval.group.debit,
                                      reval.group.credit, reval.group.today_rate,
                                      reval.group.previous_rate))]
    /\ UNCHANGED <<rateVars, fetchVars, reportVars, banksXlsx, successLog, downloadLog,
                   runResult, ratesCall, etl, download, bogRun, historical>>

NextReval ==
    \/ BuildingExcelRevaluation
    \/ GeneratorRevaluation

(***************************************************************************)
(* src/src/excel_report_generator.py: main and write_excel                 *)
(***************************************************************************)

\* df[df[column] == value] and df[df[column] != value] on the columns main
\* filters by.  A null equals nothing, itself included.
WhereCompany(df, company) ==
    SelectSeq(df, LAMBDA row : row.Company # NaN /\ row.Company = company)

WhereDate(df, date) ==
    SelectSeq(df, LAMBDA row : row.date # NaT /\ row.date = date)

\* df[df['Curr'] != 'GEL'] taken to keep the listed foreign currencies only.
CurrNotGelListedOnly(df) == SelectSeq(df, LAMBDA row : row.Curr \in ForeignCurrencies)

CurrNotGel(df) == SelectSeq(df, LAMBDA row : ~(row.Curr = "GEL"))

CurrGel(df) == SelectSeq(df, LAMBDA row : row.Curr = "GEL")

\* set(df[column].dropna().unique())
UniqueCompanies(df) == {df[i].Company : i \in 1..Len(df)} \ {NaN}
UniqueDates(df) == {df[i].date : i \in 1..Len(df)} \ {NaT}

NoWorkbook ==
    [company |-> NaN, date |-> NaT,
     bog_gel |-> <<>>, bog_other |-> <<>>, tbc_gel |-> <<>>, tbc_other |-> <<>>,
     bog_groups |-> <<>>, tbc_groups |-> <<>>,
     bog_summary |-> <<>>, tbc_summary |-> <<>>,
     bog_other_with_summary |-> <<>>, tbc_other_with_summary |-> <<>>]

FirstCell == [col |-> 1, row |-> 1]

\* The report generator has not run: the tables are empty.
IdleReport ==
    /\ bogTable = <<>>
    /\ tbcTable = <<>>
    /\ pc = "idle"
    /\ bog_df = <<>>
    /\ tbc_df = <<>>
    /\ mapPos = FirstCell
    /\ companies = {}
    /\ dates = {}
    /\ workbook = NoWorkbook
    /\ reports = <<>>

\* excel_report_generator.py is started: bank_data.db holds the transactions
\* the fetchers stored.
InitReport ==
    /\ \E p \in { q \in StoredTables : Len(q[1]) + Len(q[2]) <= MaxRows }
                  \cup { <<b, <<>> >> : b \in BogDayTables }
                  \cup { << <<>>, t>> : t \in TbcDayTables } :
          /\ bogTable = p[1]
          /\ tbcTable = p[2]
    /\ pc = "start"
    /\ bog_df = <<>>
    /\ tbc_df = <<>>
    /\ mapPos = FirstCell
    /\ companies = {}
    /\ dates = {}
    /\ workbook = NoWorkbook
    /\ reports = <<>>

\* main: bog_df = read_bog_transactions(), and map_and_transform_bog begins
\* unless the frame is empty.
MainReadBog ==
    /\ pc = "start"
    /\ bog_df' = ReadBogTransactions(bogTable)
    /\ mapPos' = FirstCell
    /\ pc' = IF bogTable = <<>> THEN "read_tbc" ELSE "map_bog"
    /\ UNCHANGED <<bogTable, tbcTable, tbc_df, companies, dates, workbook, reports>>
    /\ UNCHANGED <<rateVars, fetchVars, runVars>>

\* The cell after mapPos, column by column, or None past the last.
NextCell(df, columns) ==
    IF mapPos.row < Len(df) THEN Some([mapPos EXCEPT !.row = @ + 1])
    ELSE IF mapPos.col < Len(columns) THEN Some([col |-> mapPos.col + 1, row |-> 1])
    ELSE None

\* One cell of a calculated column of a frame: the frame and the table
\* nbg_fx_rates after it.
MapCell(bank, df, columns, up, dbOk) ==
    LET col == columns[mapPos.col]
        row == df[mapPos.row]
        needs == NeedsRate(bank, col, row)
        g == GetNbgRate(nbgFxRates, row.Curr, DateArg(row.date), up, dbOk)
    IN [db |-> IF needs THEN g.db ELSE nbgFxRates,
        df |-> IF needs
               THEN [df EXCEPT ![mapPos.row][col] =
                        CellValue(bank, col, row, df, NumOrZero(g.result))]
               ELSE df]

\* map_and_transform_bog: one row of df.apply for a calculated column.
MapBogCell ==
    /\ pc = "map_bog"
    /\ \E up \in BOOLEAN, dbOk \in BOOLEAN :
          LET m == MapCell("BOG", bog_df, BogRateColumns, up, dbOk)
              n == NextCell(bog_df, BogRateColumns)
          IN /\ bog_df' = m.df
             /\ nbgFxRates' = m.db
             /\ mapPos' = IF n = None THEN FirstCell ELSE CHOOSE c \in n : TRUE
             /\ pc' = IF n = None THEN "read_tbc" ELSE "map_bog"
    /\ UNCHANGED <<bogTable, tbcTable, tbc_df, companies, dates, workbook, reports>>
    /\ UNCHANGED <<nbgData, lastCall, fetchVars, runVars>>

\* main: tbc_df = read_tbc_transactions(), and map_and_transform_tbc begins
\* unless the frame is empty.
MainReadTbc ==
    /\ pc = "read_tbc"
    /\ tbc_df' = ReadTbcTransactions(tbcTable)
    /\ mapPos' = FirstCell
    /\ pc' = IF tbcTable = <<>> THEN "companies" ELSE "map_tbc"
    /\ UNCHANGED <<bogTable, tbcTable, bog_df, companies, dates, workbook, reports>>
    /\ UNCHANGED <<rateVars, fetchVars, runVars>>

\* map_and_transform_tbc: one row of df.apply for a calculated column.
MapTbcCell ==
    /\ pc = "map_tbc"
    /\ \E up \in BOOLEAN, dbOk \in BOOLEAN :
          LET m == MapCell("TBC", tbc_df, TbcRateColumns, up, dbOk)
              n == NextCell(tbc_df, TbcRateColumns)
          IN /\ tbc_df' = m.df
             /\ nbgFxRates' = m.db
             /\ mapPos' = IF n = None THEN FirstCell ELSE CHOOSE c \in n : TRUE
             /\ pc' = IF n = None THEN "companies" ELSE "map_tbc"
    /\ UNCHANGED <<bogTable, tbcTable, bog_df, companies, dates, workbook, reports>>
    /\ UNCHANGED <<nbgData, lastCall, fetchVars, runVars>>

\* main: the set of companies of the two frames.
MainCompanies ==
    /\ pc = "companies"
    /\ companies' = UniqueCompanies(bog_df) \cup UniqueCompanies(tbc_df)
    /\ pc' = "company"
    /\ UNCHANGED <<bogTable, tbcTable, bog_df, tbc_df, mapPos, dates, workbook, reports>>
    /\ UNCHANGED <<rateVars, fetchVars, runVars>>

\* main: the next company of the outer loop and the set of its dates, or the
\* end of the loop.
MainNextCompany ==
    /\ pc = "company"
    /\ IF companies = {}
       THEN /\ pc' = "done"
            /\ UNCHANGED <<companies, dates, workbook>>
       ELSE \E company \in companies :
               /\ companies' = companies \ {company}
               /\ dates' = UniqueDates(WhereCompany(bog_df, company))
                             \cup UniqueDates(WhereCompany(tbc_df, company))
               /\ workbook' = [NoWorkbook EXCEPT !.company = company]
               /\ pc' = "date"
    /\ UNCHANGED <<bogTable, tbcTable, bog_df, tbc_df, mapPos, reports>>
    /\ UNCHANGED <<rateVars, fetchVars, runVars>>

\* main: the next date of the inner loop, the four frames of the date and the
\* call of write_excel, or the end of the loop.
MainNextDate ==
    /\ pc = "date"
    /\ IF dates = {}
       THEN /\ pc' = "company"
            /\ UNCHANGED <<dates, workbook>>
       ELSE \E date \in dates :
               LET bog_date == WhereDate(WhereCompany(bog_df, workbook.company), date)
                   tbc_date == WhereDate(WhereCompany(tbc_df, workbook.company), date)
               IN /\ dates' = dates \ {date}
                  /\ workbook' =
                        [company |-> workbook.company, date |-> date,
                         bog_gel |-> CurrGel(bog_date),
                         bog_other |-> CurrNotGel(bog_date),
                         tbc_gel |-> CurrGel(tbc_date),
                         tbc_other |-> CurrNotGel(tbc_date),
                         bog_groups |-> ForeignGroups(CurrNotGel(bog_date)),
                         tbc_groups |-> ForeignGroups(CurrNotGel(tbc_date)),
                         bog_summary |-> <<>>, tbc_summary |-> <<>>,
                         bog_other_with_summary |-> <<>>,
                         tbc_other_with_summary |-> <<>>]
                  /\ pc' = "write_excel"
    /\ UNCHANGED <<bogTable, tbcTable, bog_df, tbc_df, mapPos, companies, reports>>
    /\ UNCHANGED <<rateVars, fetchVars, runVars>>

\* write_excel: add_foreign_currency_summary_rows(bog_other, 'BOG'), one group.
AddBogSummaryRow ==
    /\ pc = "write_excel"
    /\ workbook.bog_groups # <<>>
    /\ \E up1 \in BOOLEAN, dbOk1 \in BOOLEAN, up2 \in BOOLEAN, dbOk2 \in BOOLEAN :
          LET r == SummaryRow("BOG", workbook.bog_other, Head(workbook.bog_groups),
                              nbgFxRates, up1, dbOk1, up2, dbOk2)
          IN /\ nbgFxRates' = r.db
             /\ workbook' = [workbook EXCEPT !.bog_groups = Tail(@),
                                             !.bog_summary = Append(@, r.row)]
    /\ UNCHANGED <<bogTable, tbcTable, pc, bog_df, tbc_df, mapPos, companies, dates, reports>>
    /\ UNCHANGED <<nbgData, lastCall, fetchVars, runVars>>

\* write_excel: add_foreign_currency_summary_rows(tbc_other, 'TBC'), one group.
AddTbcSummaryRow ==
    /\ pc = "write_excel"
    /\ workbook.bog_groups = <<>>
    /\ workbook.tbc_groups # <<>>
    /\ \E up1 \in BOOLEAN, dbOk1 \in BOOLEAN, up2 \in BOOLEAN, dbOk2 \in BOOLEAN :
          LET r == SummaryRow("TBC", workbook.tbc_other, Head(workbook.tbc_groups),
                              nbgFxRates, up1, dbOk1, up2, dbOk2)
          IN /\ nbgFxRates' = r.db
             /\ workbook' = [workbook EXCEPT !.tbc_groups = Tail(@),
                                             !.tbc_summary = Append(@, r.row)]
    /\ UNCHANGED <<bogTable, tbcTable, pc, bog_df, tbc_df, mapPos, companies, dates, reports>>
    /\ UNCHANGED <<nbgData, lastCall, fetchVars, runVars>>

\* write_excel: the two calls of add_foreign_currency_summary_rows have
\* returned and the workbook of (company, date) is written.
WriteExcel ==
    /\ pc = "write_excel"
    /\ workbook.bog_groups = <<>>
    /\ workbook.tbc_groups = <<>>
    /\ reports' = Append(reports,
                         [workbook EXCEPT
                             !.bog_other_with_summary =
                                 WithSummaryRows(workbook.bog_other, workbook.bog_summary),
                             !.tbc_other_with_summary =
                                 WithSummaryRows(workbook.tbc_other, workbook.tbc_summary)])
    /\ pc' = "date"
    /\ UNCHANGED <<bogTable, tbcTable, bog_df, tbc_df, mapPos, companies, dates, workbook>>
    /\ UNCHANGED <<rateVars, fetchVars, runVars>>

NextReport ==
    \/ MainReadBog
    \/ MainReadTbc
    \/ MapBogCell
    \/ MapTbcCell
    \/ MainCompanies
    \/ MainNextCompany
    \/ MainNextDate
    \/ AddBogSummaryRow
    \/ AddTbcSummaryRow
    \/ WriteExcel

(***************************************************************************)
(* Specifications                                                          *)
(***************************************************************************)

\* The rate provider alone.
InitSpecRates == InitRates /\ IdleFetch /\ IdleReport /\ IdleRuns
SpecRates == InitSpecRates /\ [][NextRates]_vars

\* The rate cache under every function that writes it.
InitSpecCache == InitCache /\ IdleFetch /\ IdleReport /\ IdleRuns
SpecCache == InitSpecCache /\ [][NextCache]_vars

\* The bank fetchers alone.
InitSpecFetch == IdleRates /\ InitFetch /\ IdleReport /\ IdleRuns
SpecFetch == InitSpecFetch /\ [][NextFetch]_vars

\* The runs of get_all_transactions over the account list.
InitSpecRuns == IdleRates /\ InitRuns /\ IdleReport
SpecRuns == InitSpecRuns /\ [][NextRuns]_vars

\* The runs that fetch and write, on empty tables and empty logs.
InitSpecStore == IdleRates /\ InitStore /\ IdleReport
SpecStore == InitSpecStore /\ [][NextStore]_vars

\* get_daily_currency_rates on what its two sources may return.
InitSpecCurrency == IdleRates /\ IdleFetch /\ IdleReport /\ InitCurrency
SpecCurrency == InitSpecCurrency /\ [][NextCurrency]_vars

\* Runs of get_all_transactions(end_date) of src/src/bog_api.py, each
\* followed by the write of its frame.
InitSpecIncr == IdleRates /\ InitIncr /\ IdleReport
SpecIncr == InitSpecIncr /\ [][NextIncr]_vars

\* Runs of download_missing_days, one after the other; a run that has
\* started goes on to its end.
InitSpecDownload == IdleRates /\ InitDownload /\ IdleReport
SpecDownload == InitSpecDownload /\ [][NextDownload]_vars
SpecDownloadFair == SpecDownload /\ WF_vars(NextDownload)

\* main() of bank_api.
\* Calls of append_to_historical_rates on one historical file.
InitSpecHistorical == IdleRates /\ InitHistorical /\ IdleReport
SpecHistorical == InitSpecHistorical /\ [][NextHistorical]_vars

\* One foreign-currency group revalued by both reports.
InitSpecReval == IdleRates /\ InitReval /\ IdleReport
SpecReval == InitSpecReval /\ [][NextReval]_vars

InitSpecEtl == IdleRates /\ InitEtl /\ IdleReport
SpecEtl == InitSpecEtl /\ [][NextEtl]_vars

\* The report generator, with the rate provider it calls, on a database
\* in which the table nbg_fx_rates is yet to be created.
InitSpecReport ==
    /\ nbgData \in NbgSchedules
    /\ nbgFxRates = [kind |-> "missing", rows |-> {}]
    /\ lastCall = NoCall
    /\ IdleFetch
    /\ InitReport
    /\ IdleRuns
SpecReport == InitSpecReport /\ [][NextReport]_vars

(***************************************************************************)
(* The rate provider's claims (under SpecRates)                            *)
(***************************************************************************)

RateCallOps == {"get_nbg_rate", "module_get_nbg_rate"}

\* C3: a call of get_nbg_rate (the wrapper or the module's) for GEL returns
\* 1.0 whatever the date argument and the state of the cache, makes no request
\* to the NBG API and leaves the table nbg_fx_rates as it was.
C3_GelRateIsOne ==
    [][ (lastCall'.op \in RateCallOps /\ lastCall'.currency = "GEL")
        => /\ lastCall'.result = Some(GelRate)
           /\ lastCall'.requests = 0
           /\ nbgFxRates' = nbgFxRates ]_vars

\* A GEL lookup through the wrapper, with a string that is no date, made
\* while the cache holds rows.
C3_Witness ==
    /\ lastCall.op = "get_nbg_rate"
    /\ lastCall.currency = "GEL"
    /\ lastCall.arg.kind = "badstr"
    /\ lastCall.result = Some(GelRate)
    /\ nbgFxRates.rows # {}

\* C9: a call of get_nbg_rate for a foreign currency, made when the cache has
\* no rate for (currency, date) and the API is unreachable or has nothing for
\* the date, returns None and never a number.
C9_MissingRateIsNotFound ==
    [][ ( /\ lastCall'.op \in RateCallOps
          /\ lastCall'.currency # "GEL"
          /\ lastCall'.arg.kind # "badstr"
          /\ ModuleGetNbgRate(nbgFxRates, lastCall'.currency, lastCall'.arg.day) = None
          /\ (~lastCall'.up \/ nbgData[lastCall'.arg.day] = None) )
        => lastCall'.result = None ]_vars

C23_TrueOnlyIfRatesAreCached ==
    lastCall.op = "ensure_rates_for_date"
    => /\ lastCall.result = Some(1)
          => GetAllRatesForDate(nbgFxRates, lastCall.arg.day) # {}
       /\ (lastCall.requests = 1 /\ (lastCall.fetched = {} \/ ~lastCall.dbOk))
          => lastCall.result = Some(0)

C12_CacheIsAppendOnly ==
    [][ \A r \in nbgFxRates.rows : r \in nbgFxRates'.rows ]_vars

(***************************************************************************)
(* The claims on the runs over the account list (under SpecRuns)           *)
(***************************************************************************)

\* The requests made for row i of the run all succeeded.
Succeeded(i) == \A f \in DOMAIN runResult.outcomes[i] : runResult.outcomes[i][f]

\* The records of the run's frame that belong to the account of row i.
RecordsOfRow(i) ==
    {j \in 1..Len(runResult.records) :
        /\ runResult.records[j].company = runResult.accounts[i].company
        /\ runResult.records[j].account_number = runResult.accounts[i].account_number
        /\ runResult.records[j].currency = runResult.accounts[i].currency}

\* C14: in get_all_transactions of either bank, a failed request (or missing
\* credentials) for one account does not stop the run: the run does not
\* raise, requests are made exactly once for every row of the bank's account
\* list that has credentials, and the result holds every entry of the range
\* for every account whose requests succeeded.
C14_FailedAccountDoesNotStopTheRun ==
    (runResult.op # "none" /\ banksXlsx.kind = "ok")
    => /\ ~runResult.raised
       /\ Len(runResult.accounts) = RowsOfBank(runResult.bank)
       /\ \A i \in 1..Len(runResult.accounts) :
             runResult.accounts[i].company \in CompaniesWithCredentials
             => /\ Cardinality({k \in 1..Len(runResult.fetched) :
                                   runResult.fetched[k] = i}) = 1
                /\ Succeeded(i)
                   => LET entries == EntriesInRange(runResult.start, runResult.end)
                      IN \A k \in 1..Len(entries) :
                            \E j \in RecordsOfRow(i) :
                                /\ runResult.records[j].entry_id = entries[k].entry_id
                                /\ RecCredit(runResult.records[j]) = entries[k].credit
                                /\ RecDebit(runResult.records[j]) = entries[k].debit

\* A run whose first account fails, whose second has no credentials and
\* whose third succeeds and has records in the result.
C14_Witness ==
    /\ runResult.op # "none"
    /\ Len(runResult.accounts) = 3
    /\ ~Succeeded(1)
    /\ runResult.accounts[2].company \notin CompaniesWithCredentials
    /\ Succeeded(3)
    /\ runResult.fetched = <<1, 3>>
    /\ RecordsOfRow(3) # {}
    /\ RecordsOfRow(1) = {}

\* The rows of a table have pairwise different keys (bank, account, entry id).
KeysUnique(table) ==
    \A i, j \in 1..Len(table) :
        ( /\ table[i].bank = table[j].bank
          /\ table[i].account_number = table[j].account_number
          /\ table[i].entry_id = table[j].entry_id ) => i = j

\* Every row of the table before is the same row of the table after.
RowsKept(before, after) ==
    /\ Len(before) <= Len(after)
    /\ \A i \in 1..Len(before) : after[i] = before[i]

\* C13: under the runs that fetch and write, repeated over the same dates
\* or not, bog_transactions and tbc_transactions never hold two rows with
\* the same (bank, account, entry id), and a stored row is never modified
\* or removed.
C13_StoredRowsKeyedAndKept ==
    [][ /\ KeysUnique(bogTable') /\ KeysUnique(tbcTable')
        /\ RowsKept(bogTable, bogTable') /\ RowsKept(tbcTable, tbcTable') ]_vars

\* C16: when banks.xlsx is unreadable, empty or lacks a required column,
\* get_all_transactions returns an empty result, raises no error and makes
\* no request to the bank.
C16_BadSheetGivesEmptyResult ==
    (runResult.op # "none" /\ (banksXlsx.kind # "ok" \/ banksXlsx.rows = <<>>))
    => /\ ~runResult.raised
       /\ runResult.records = <<>>
       /\ runResult.fetched = <<>>

(***************************************************************************)
(* The claims on the incremental get_all_transactions(end_date) of         *)
(* src/src/bog_api.py (under SpecIncr)                                     *)
(***************************************************************************)

\* The rows of a log for the key.
RowsOfKey(log, key) == {r \in log : r.key = key}

\* The requests of the last run for the key.
RequestsOfKey(key) ==
    {i \in 1..Len(bogRun.requests) : bogRun.requests[i].window.key = key}

\* C22: in a run of get_all_transactions(end_date) an account with a last
\* run date L in the log is requested for the window from L + 1 to end_date
\* only, and not at all when L + 1 is after end_date, so no day on or before
\* L is requested again; and the last run date of an account becomes
\* end_date only when its request returned a record.
C22_FetchedOnlyAfterLastRunDate ==
    bogRun.pc # "idle"
    => /\ \A i \in 1..Len(bogRun.requests) :
             LET q == bogRun.requests[i].window
             IN /\ q.end_date = bogRun.end_date
                /\ q.start_date <= q.end_date
                /\ \A r \in RowsOfKey(bogRun.before, q.key) :
                      q.start_date = r.last_run_date + 1
       /\ \A r \in bogRun.before :
             r.last_run_date + 1 > bogRun.end_date => RequestsOfKey(r.key) = {}
       /\ \A r \in successLog :
             r \notin bogRun.before
             => /\ r.last_run_date = bogRun.end_date
                /\ \E i \in RequestsOfKey(r.key) : bogRun.requests[i].returned > 0

\* A second run has requested an account from the day after its last run
\* date, has got records and has set the last run date to its end date.
C22_Witness ==
    /\ bogRun.pc = "fetched"
    /\ bogRun.run = 2
    /\ \E i \in 1..Len(bogRun.requests) :
          LET q == bogRun.requests[i]
          IN /\ q.returned > 0
             /\ \E r \in bogRun.before :
                   r.key = q.window.key /\ q.window.start_date = r.last_run_date + 1
             /\ [key |-> q.window.key, last_run_date |-> bogRun.end_date] \in successLog

\* C25: every record fetched for a window that ends at the last run date
\* the log holds for its account is a row of bog_transactions.
C25_CursorNeverAheadOfData ==
    \A c \in bogRun.cursor_records :
        [key |-> LogKey(c.record), last_run_date |-> c.end_date] \in successLog
        => \E i \in 1..Len(bogTable) : bogTable[i] = c.record

\* C28: over the runs of get_all_transactions(end_date), with end dates in
\* any order, the last run date of an account never decreases and the log
\* holds one row per account at most.
C28_LastRunDateNeverDecreases ==
    [][ /\ \A r \in successLog :
             \E q \in successLog' :
                 q.key = r.key /\ q.last_run_date >= r.last_run_date
        /\ \A q1 \in successLog', q2 \in successLog' :
             q1.key = q2.key => q1 = q2 ]_vars

\* A second run with an end date before the last run date of an account has
\* returned, and the log still holds the later date.
C28_Witness ==
    /\ bogRun.pc = "fetched"
    /\ bogRun.run = 2
    /\ \E r \in bogRun.before :
          /\ r.last_run_date > bogRun.end_date
          /\ r \in successLog

(***************************************************************************)
(* The claims on download_missing_days (under SpecDownload and, for the    *)
(* end of a run, SpecDownloadFair)                                         *)
(***************************************************************************)

\* C21: a run of download_missing_days with max_retries >= 1 that has
\* returned has processed every date from its start date to yesterday, the
\* last of them yesterday, has written the download-log row of each of them,
\* and returns the sum of the transaction counts of the dates it logged
\* 'success'.
C21_EveryDateLoggedOnce ==
    (download.pc = "done" /\ download.max_retries >= 1)
    => /\ download.dates_done = Max(Today - download.start_date, 0)
       /\ download.dates_done > 0 => download.last.date = Today - 1
       /\ download.all_logged
       /\ download.total_downloaded = download.success_total

\* C26: a date is logged 'success' only if the movements request of no
\* account with credentials failed in the attempt that completed.
C26_SuccessOnlyIfEveryFetchSucceeded ==
    (download.pc # "idle" /\ download.last.status = "success")
    => ~download.last.fetch_failed

\* C27: after a run with the default start date and the later runs with
\* it, which found the bank and the database available, no date is left
\* logged 'failed': every date the log holds has the status 'success'.
C27_FailedDatesAreAttemptedAgain ==
    (download.pc = "done" /\ download.run = MaxRuns /\ download.defaults
     /\ download.max_retries >= 1 /\ banksXlsx.kind = "ok")
    => \A d \in DOMAIN downloadLog.rows : downloadLog.rows[d].status = "success"

\* C29: a run of download_missing_days comes to its end: no date is
\* attempted more than max_retries times, the date moves on by one day when
\* the inner loop ends, and a run that has started returns.
C29_DownloadTerminates ==
    /\ [](download.pc # "idle" => download.attempts <= download.max_retries)
    /\ [][(download.pc = "inner" /\ download'.pc = "outer")
            => download'.current_date = download.current_date + 1]_vars
    /\ (download.pc = "outer") ~> (download.pc = "done")

\* A run with max_retries = 2 has returned after two dates or more, the last
\* of them logged 'failed' after two attempts.
C29_Witness ==
    /\ download.pc = "done"
    /\ download.max_retries = 2
    /\ download.dates_done >= 2
    /\ download.last.status = "failed"
    /\ download.last.attempts = 2

(***************************************************************************)
(* The claims on append_to_historical_rates (under SpecHistorical)         *)
(***************************************************************************)

\* How many rows of a file are equal to row.
CountOf(rows, row) == Cardinality({i \in 1..Len(rows) : rows[i] = row})

\* C24: a call adds only rows whose (date, bank, currency) the file did not
\* hold, the file holds at most one row per (date, bank, currency), the rows
\* it held are all still there, and appending again a frame that was
\* appended leaves the file as it is.
C24_OneRowPerKey ==
    /\ [](\A i, j \in 1..Len(historical.rows) :
            KeyOf(historical.rows[i]) = KeyOf(historical.rows[j]) => i = j)
    /\ [][ /\ \A i \in 1..Len(historical'.rows) :
               CountOf(historical'.rows, historical'.rows[i])
                   > CountOf(historical.rows, historical'.rows[i])
               => KeyOf(historical'.rows[i]) \notin KeysOf(historical.rows)
           /\ \A i \in 1..Len(historical.rows) :
               CountOf(historical'.rows, historical.rows[i])
                   >= CountOf(historical.rows, historical.rows[i])
           /\ (historical.written /\ historical'.batch = historical.batch)
               => historical'.rows = historical.rows ]_vars

(***************************************************************************)
(* The claims on the two revaluations (under SpecReval)                    *)
(***************************************************************************)

\* The side and the magnitude of the adjustment each report shows.
BuildingSide(row) ==
    IF row.reval_debit_gel # 0 THEN "debit"
    ELSE IF row.reval_credit_gel # 0 THEN "credit" ELSE "none"
BuildingMagnitude(row) == row.reval_debit_gel + row.reval_credit_gel
GeneratorSide(row) ==
    IF row.debitGel \notin {None, Some(0)} THEN "debit"
    ELSE IF row.creditGel \notin {None, Some(0)} THEN "credit" ELSE "none"
GeneratorMagnitude(row) == Abs(NumOrZero(row.debitGel)) + Abs(NumOrZero(row.creditGel))

\* The group the two reports are compared on: the closing balance is the
\* opening balance plus the turnover and the turnover's GEL amounts are at
\* the day's rate.
SameGroup(g) ==
    /\ g.closing = g.opening + g.credit - g.debit
    /\ g.debit_gel = g.debit * g.today_rate
    /\ g.credit_gel = g.credit * g.today_rate

\* C30: on such a group the revaluation row of generate_daily_bank_report
\* and the summary row of add_foreign_currency_summary_rows show an
\* adjustment of the same magnitude on the same side.
C30_SameMagnitudeSameSide ==
    (reval.pc = "group" /\ reval.building # None /\ reval.generator # None
        /\ SameGroup(reval.group))
    => LET b == CHOOSE r \in reval.building : TRUE
           g == CHOOSE r \in reval.generator : TRUE
       IN /\ BuildingMagnitude(b) = GeneratorMagnitude(g)
          /\ BuildingSide(b) = GeneratorSide(g)

(***************************************************************************)
(* The claims on bank_api main() (under SpecEtl) and on                    *)
(* get_daily_currency_rates (under SpecCurrency)                           *)
(***************************************************************************)

\* The fetches main() has made, in order.
EtlFetches == SelectSeq(etl.calls, LAMBDA c : c.kind = "fetch")

\* C19: in a run of main() the fetches of the stages BOG, TBC and rates are
\* made once each and in that order, whether or not a stage raised, and a
\* write is made exactly when the fetch of its stage has returned, once,
\* right after it and with the frame the fetch returned.
C19_StagesOnceInOrder ==
    /\ Len(EtlFetches) <= Len(Stages)
    /\ \A i \in 1..Len(EtlFetches) : EtlFetches[i].stage = Stages[i]
    /\ etl.pc \in {"checklist", "done"} => Len(EtlFetches) = Len(Stages)
    /\ \A i \in 1..Len(etl.calls) :
          etl.calls[i].kind = "write"
          => /\ i > 1
             /\ etl.calls[i - 1].kind = "fetch"
             /\ etl.calls[i - 1].stage = etl.calls[i].stage
             /\ ~etl.calls[i - 1].raised
             /\ etl.calls[i].frame = etl.calls[i - 1].frame
    /\ \A i \in 1..Len(etl.calls) :
          (etl.calls[i].kind = "fetch" /\ ~etl.calls[i].raised)
          => IF i = Len(etl.calls)
             THEN etl.pc \in {"bog_write", "tbc_write", "rates_write"}
             ELSE /\ etl.calls[i + 1].kind = "write"
                  /\ etl.calls[i + 1].stage = etl.calls[i].stage

\* A finished run in which the write of the BOG stage raised and the TBC and
\* rates stages fetched rows and wrote them.
C19_Witness ==
    /\ etl.pc = "done"
    /\ Len(etl.calls) = 6
    /\ etl.calls[1].frame # <<>>
    /\ etl.calls[2].kind = "write" /\ etl.calls[2].raised
    /\ etl.calls[3].frame # <<>>
    /\ etl.calls[4].kind = "write" /\ etl.calls[4].frame = etl.calls[3].frame
    /\ etl.calls[5].frame # <<>>
    /\ etl.calls[6].kind = "write" /\ etl.calls[6].frame = etl.calls[5].frame

\* The records the two sources returned to the call, None left out.
ReturnedRecords ==
    Flatten([i \in 1..Len(ratesCall.bog) |->
                IF ratesCall.bog[i] # None
                THEN <<CHOOSE r \in ratesCall.bog[i] : TRUE>> ELSE <<>>])
    \o ratesCall.tbc

\* C20: get_daily_currency_rates returns an empty table and raises no error
\* when the two sources return no record and when every record they return
\* lacks the fields date, datetime, bank, currency, buy and sell.
C20_NoUsableRecordGivesEmptyTable ==
    ( /\ ratesCall.op # "none"
      /\ \A i \in 1..Len(ReturnedRecords) :
            DOMAIN ReturnedRecords[i] \cap RequiredFields = {} )
    => ~ratesCall.raised /\ ratesCall.rows = <<>>

(***************************************************************************)
(* The report generator's claims (under SpecReport)                        *)
(***************************************************************************)

\* The workbooks written so far and the one write_excel is at.
Workbooks ==
    {reports[k] : k \in 1..Len(reports)}
        \cup (IF pc = "write_excel" THEN {workbook} ELSE {})

\* The summary rows computed so far.
SummaryRows ==
    UNION { {w.bog_summary[i] : i \in 1..Len(w.bog_summary)}
              \cup {w.tbc_summary[i] : i \in 1..Len(w.tbc_summary)} : w \in Workbooks }

C2_LossOfTwentyIsADebitOfTwenty ==
    \A s \in SummaryRows :
        ( /\ s.Curr = "USD"
          /\ s.opening_balance = 1000
          /\ s.turnover = 0
          /\ s.previous_day_rate = 270
          /\ s.rate = 272 )
        => /\ s.exchange_diff = -2000
           /\ s.debitGel = Some(2000)
           /\ s.creditGel = None

\* C17: in every summary row the adjustment is on one side: a negative one
\* is in the debit-equivalent column only, a positive one is in the
\* credit-equivalent column only and as its magnitude, a zero one makes both
\* columns 0; the two columns are never both non-zero.
C17_AdjustmentOnOneSide ==
    \A s \in SummaryRows :
        /\ s.exchange_diff < 0 =>
              s.debitGel = Some(s.exchange_diff) /\ s.creditGel = None
        /\ s.exchange_diff > 0 =>
              s.creditGel = Some(Abs(s.exchange_diff)) /\ s.debitGel = None
        /\ s.exchange_diff = 0 => s.debitGel = Some(0) /\ s.creditGel = Some(0)
        /\ ~(s.debitGel \notin {None, Some(0)} /\ s.creditGel \notin {None, Some(0)})

\* A summary row with a positive adjustment and one with a negative
\* adjustment.
C17_Witness ==
    /\ \E s \in SummaryRows :
          /\ s.exchange_diff > 0
          /\ s.creditGel = Some(s.exchange_diff)
          /\ s.debitGel = None
    /\ \E s \in SummaryRows :
          /\ s.exchange_diff < 0
          /\ s.debitGel = Some(s.exchange_diff)
          /\ s.creditGel = None

\* The (company, account, currency, date) of the non-GEL rows of a frame.
ForeignKeys(df) ==
    { <<df[i].raw_company, df[i].raw_account_number, df[i].raw_currency,
        df[i].raw_date>> : i \in {j \in 1..Len(df) : df[j].raw_currency # "GEL"} }

\* What C18 says of one call: df is the frame passed, all_rows a frame with
\* GEL rows as well, out the frame returned.
OneRowPerGroup(df, all_rows, out) ==
    /\ Len(out) = Len(df) + Cardinality(ForeignKeys(df))
    /\ \A i \in 1..Len(df) : out[i] = df[i]
    /\ \A k \in ForeignKeys(df) :
          Cardinality({j \in (Len(df) + 1)..Len(out) :
                          <<out[j].Company, out[j].account, out[j].Curr, out[j].date>> = k})
            = 1
    /\ \A j \in (Len(df) + 1)..Len(out) : out[j].Curr # "GEL"
    /\ ForeignGroups(all_rows) = ForeignGroups(df)
    /\ \A g \in 1..Len(ForeignGroups(all_rows)) :
          ForeignGroups(all_rows)[g].currency # "GEL"

\* C18: add_foreign_currency_summary_rows returns the rows of its input,
\* unchanged and in their places, followed by exactly one summary row for
\* each (company, account, currency, date) of its non-GEL rows; GEL rows get
\* no summary row.
C18_OneSummaryRowPerForeignGroup ==
    \A k \in 1..Len(reports) :
        /\ OneRowPerGroup(reports[k].bog_other,
                          reports[k].bog_gel \o reports[k].bog_other,
                          reports[k].bog_other_with_summary)
        /\ OneRowPerGroup(reports[k].tbc_other,
                          reports[k].tbc_gel \o reports[k].tbc_other,
                          reports[k].tbc_other_with_summary)

\* A workbook whose foreign BOG frame holds two rows of one group and came
\* back with one summary row after them.
C18_Witness ==
    \E k \in 1..Len(reports) :
        /\ Len(reports[k].bog_other) = 2
        /\ Cardinality(ForeignKeys(reports[k].bog_other)) = 1
        /\ Len(reports[k].bog_other_with_summary) = 3
        /\ reports[k].bog_other_with_summary[3].account
             = reports[k].bog_other[1].raw_account_number

\* The rows of a frame, by their index in the mapped frame.
Idx(df) == {df[i].idx : i \in 1..Len(df)}

\* The rows of a mapped frame that carry a company and a date.
RowsOf(df, company, date) ==
    {i \in 1..Len(df) : df[i].Company = company /\ df[i].date = date}

\* C5: in every workbook and for each bank, the GEL frame and the foreign
\* frame share no row and together hold every row of the bank with the
\* workbook's company and date, whatever the rows' currencies are.
C5_PartitionIsTotalAndDisjoint ==
    \A w \in Workbooks :
        /\ Idx(w.bog_gel) \cap Idx(w.bog_other) = {}
        /\ Idx(w.bog_gel) \cup Idx(w.bog_other) = RowsOf(bog_df, w.company, w.date)
        /\ Len(w.bog_gel) + Len(w.bog_other)
              = Cardinality(RowsOf(bog_df, w.company, w.date))
        /\ Idx(w.tbc_gel) \cap Idx(w.tbc_other) = {}
        /\ Idx(w.tbc_gel) \cup Idx(w.tbc_other) = RowsOf(tbc_df, w.company, w.date)
        /\ Len(w.tbc_gel) + Len(w.tbc_other)
              = Cardinality(RowsOf(tbc_df, w.company, w.date))

\* A workbook written with a GEL row and a row of an unlisted currency code
\* of one bank.
C5_Witness ==
    \E k \in 1..Len(reports) :
        /\ reports[k].bog_gel # <<>>
        /\ \E i \in 1..Len(reports[k].bog_other) : reports[k].bog_other[i].Curr \notin ForeignCurrencies

\* The workbooks whose frames hold row i of a bank's mapped frame.
ReportsHoldingBog(i) ==
    {k \in 1..Len(reports) : i \in Idx(reports[k].bog_gel) \cup Idx(reports[k].bog_other)}

ReportsHoldingTbc(i) ==
    {k \in 1..Len(reports) : i \in Idx(reports[k].tbc_gel) \cup Idx(reports[k].tbc_other)}

\* C6: when main() has ended, every row of the two mapped frames is in the
\* frames of exactly one workbook, whatever its company and date are.
C6_EveryRowInExactlyOneReport ==
    pc = "done" =>
        /\ \A i \in 1..Len(bog_df) : Cardinality(ReportsHoldingBog(i)) = 1
        /\ \A i \in 1..Len(tbc_df) : Cardinality(ReportsHoldingTbc(i)) = 1

\* C7: no summary row is computed with a number standing in for yesterday's
\* rate: the rate a row was computed with is the rate the cache holds for the
\* row's currency and the day before its date.
C7_NoRowWithSubstitutedRate ==
    \A s \in SummaryRows :
        ModuleGetNbgRate(nbgFxRates, s.Curr, s.date - 1) = Some(s.previous_day_rate)

\* The FX cells of a mapped row.
FxCells(bank, row) ==
    IF bank = "BOG" THEN {row.rate, row.amountGel, row.openingGel}
    ELSE {row.rate, row.outgoingGel, row.incomingGel}

\* C8: a mapped row of a foreign currency whose (currency, date) has no rate
\* carries no number in its FX cells.
C8_MissingRateIsNotZeroFilled ==
    /\ \A i \in 1..Len(bog_df) :
          ( /\ bog_df[i].Curr \in ForeignCurrencies
            /\ ModuleGetNbgRate(nbgFxRates, bog_df[i].Curr, bog_df[i].date) = None )
          => FxCells("BOG", bog_df[i]) = {None}
    /\ \A i \in 1..Len(tbc_df) :
          ( /\ tbc_df[i].Curr \in ForeignCurrencies
            /\ ModuleGetNbgRate(nbgFxRates, tbc_df[i].Curr, tbc_df[i].date) = None )
          => FxCells("TBC", tbc_df[i]) = {None}

====
